---- MODULE Spec2Model ----
(***************************************************************************)
(* A model of the concretization engine of lib/spack/spack/solver/asp.py:  *)
(* the hash-keyed container of concrete specs and the hash unification of  *)
(* SpecBuilder.build_specs, the concretization cache with its manifest,    *)
(* and the solve driver with its cache lookup, time limit and the          *)
(* serialisation of its Result.                                            *)
(***************************************************************************)
EXTENDS Integers, Sequences, FiniteSets, TLC

None == "None"

(***************************************************************************)
(* State.                                                                  *)
(*   heap, data, explicit    spec objects; ConcreteSpecsByHash.data and    *)
(*                           .explicit (part 1)                            *)
(*   added, lastAdd          the arguments of add so far; the last call    *)
(*   _specs, pre_specs       SpecBuilder._specs after and before the hash  *)
(*                           unification                                   *)
(*   entries, manifest       the entry files and the manifest file of the  *)
(*                           cache root (part 2)                           *)
(*   _manifest_queue         ConcretizationCache._manifest_queue, one per  *)
(*                           process                                       *)
(*   store_pc                where each process is inside store            *)
(*   recorded, stored        the updates handed to the manifest so far;    *)
(*                           the entries written so far, in order          *)
(*   lastOp                  the last cache operation and its outcome      *)
(*   entry_limit             config:concretization_cache:entry_limit       *)
(*   config                  the configuration PyclingoDriver.solve reads  *)
(*   pc, call                the phase of the solve under way (part 4) and *)
(*                           its inputs                                    *)
(*   run, wait, models       what the solver does in this solve; the       *)
(*                           outcome of the wait; the models reported      *)
(*   built                   the models build_specs was called with        *)
(*   result, outcome         the Result under construction; how the last   *)
(*                           solve ended                                   *)
(*   completed, ncalls       the programs whose solve stored a result; the *)
(*                           number of solves so far                       *)
(*   core, unsat_sets        the argument of minimize_core (part 5); the   *)
(*                           least sets of facts the solver finds          *)
(*                           unsatisfiable                                 *)
(*   min_core, core_pc,      the list minimize_core works on; where it is; *)
(*   core_i, solves          the position in core; the re-solves so far    *)
(*   compiler_flags,         the flags of one node for one flag type (part *)
(*   flags_before            6), and what they were before reorder_flags   *)
(*   topo_order              the node and its dependents, as traversed     *)
(*   ordered_flags, flag_pc, the list reorder_flags builds; where it is;   *)
(*   grp_i                   the position in the prioritized groups        *)
(*   arrived,                the attribute tuples given to build_specs     *)
(*   function_tuples         (part 7), and the list once sorted            *)
(*   specs_by_node           SpecBuilder._specs while the tuples are       *)
(*                           applied: node -> the spec under construction  *)
(*   applied, build_pc,      the actions called so far; where build_specs  *)
(*   tuple_i                 is; the position in function_tuples           *)
(*   packages                what SpackSolverSetup.setup reads on the      *)
(*                           versions of one package (part 8)              *)
(*   declared_versions,      SpackSolverSetup.declared_versions,           *)
(*   possible_versions,      .possible_versions and .deprecated_versions   *)
(*   deprecated_versions     of that package                               *)
(*   setup_pc                where setup is                                *)
(*   condition_causes,       the condition_cause facts of the model (part  *)
(*   root_cause              9) and the argument of get_cause_tree         *)
(*   seen, stack,            the set seen; the calls of _get_cause_tree    *)
(*   tree_lines, tree_pc     under way; the lines so far; where it is      *)
(*   _id_counter,            SpackSolverSetup._id_counter, _trigger_cache  *)
(*   _trigger_cache,         and _effect_cache (part 10)                   *)
(*   _effect_cache                                                         *)
(*   spec_names, emitted     the names of the callers' spec objects; the   *)
(*                           facts emitted so far                          *)
(*   registered              the triggers and effects condition asked an   *)
(*                           id for so far                                 *)
(*   flushes, nconds,        the numbers of flushes and of calls of        *)
(*   last_call               condition so far; the last of them            *)
(*   splice_specs,           the splice_specs of the package in two        *)
(*   asp_problems,           programs P and Q, the text of each program    *)
(*   cache_keys              and the text its cache key is made of         *)
(*                           (part 11)                                     *)
(*   rounds_pc,              solve_in_rounds (part 12): where it is, the   *)
(*   initial_specs,          specs it was called with, the inputs and the  *)
(*   input_specs,            reusable specs of the next round, the Results *)
(*   reusable_specs,         yielded, the numbers of inputs of the rounds  *)
(*   yielded, round_sizes,   so far, the exception that ended it, and the  *)
(*   round_error, nruns      number of calls so far                        *)
(*   flush_pc, flush_stats,  flush_manifest step by step (part 13): where  *)
(*   flush_pos               each process is, the count and bytes it read, *)
(*                           and the position of its file object           *)
(***************************************************************************)
VARIABLES heap, data, explicit, added, lastAdd, _specs, pre_specs,
          entries, manifest, _manifest_queue, store_pc, recorded, stored, lastOp,
          entry_limit,
          config, pc, call, run, wait, models, built, result, outcome, completed, ncalls,
          core, unsat_sets, min_core, core_pc, core_i, solves,
          compiler_flags, flags_before, topo_order, ordered_flags, flag_pc, grp_i,
          arrived, function_tuples, specs_by_node, applied, build_pc, tuple_i,
          packages, declared_versions, possible_versions, deprecated_versions, setup_pc,
          condition_causes, root_cause, seen, stack, tree_lines, tree_pc,
          _id_counter, _trigger_cache, _effect_cache, spec_names, emitted, registered, flushes, nconds, last_call,
          splice_specs, asp_problems, cache_keys,
          rounds_pc, initial_specs, input_specs, reusable_specs, yielded, round_sizes, round_error, nruns,
          flush_pc, flush_stats, flush_pos

unifyVars == <<heap, data, explicit, added, lastAdd, _specs, pre_specs>>

cacheVars == <<entries, manifest, _manifest_queue, store_pc, recorded, stored,
               lastOp, entry_limit>>

driverVars == <<config, pc, call, run, wait, models, built, result, outcome,
                completed, ncalls>>

coreVars == <<core, unsat_sets, min_core, core_pc, core_i, solves>>

\* the variables of the functions checked by themselves (parts 5 and on)
flagVars == <<compiler_flags, flags_before, topo_order, ordered_flags, flag_pc, grp_i>>

buildVars == <<arrived, function_tuples, specs_by_node, applied, build_pc, tuple_i>>

versionVars == <<packages, declared_versions, possible_versions, deprecated_versions,
                 setup_pc>>

treeVars == <<condition_causes, root_cause, seen, stack, tree_lines, tree_pc>>

condVars == <<_id_counter, _trigger_cache, _effect_cache, spec_names, emitted, registered, flushes, nconds, last_call>>

keyVars == <<splice_specs, asp_problems, cache_keys>>

roundsVars == <<rounds_pc, initial_specs, input_specs, reusable_specs, yielded, round_sizes, round_error, nruns>>

flushVars == <<flush_pc, flush_stats, flush_pos>>

analysisVars == <<coreVars, flagVars, buildVars, versionVars, treeVars, condVars, keyVars, roundsVars, flushVars>>

vars == <<unifyVars, cacheVars, driverVars, analysisVars>>

otherThanUnify == <<cacheVars, driverVars, analysisVars>>

otherThanCache == <<unifyVars, driverVars, analysisVars>>

otherThanCore == <<unifyVars, cacheVars, driverVars, flagVars, buildVars, versionVars, treeVars, condVars, keyVars, roundsVars, flushVars>>

otherThanFlags == <<unifyVars, cacheVars, driverVars, coreVars, buildVars, versionVars, treeVars, condVars, keyVars, roundsVars, flushVars>>

otherThanBuild == <<unifyVars, cacheVars, driverVars, coreVars, flagVars, versionVars, treeVars, condVars, keyVars, roundsVars, flushVars>>

otherThanVersions == <<unifyVars, cacheVars, driverVars, coreVars, flagVars, buildVars, treeVars, condVars, keyVars, roundsVars, flushVars>>

otherThanTree == <<unifyVars, cacheVars, driverVars, coreVars, flagVars, buildVars, versionVars, condVars, keyVars, roundsVars, flushVars>>

otherThanCond == <<unifyVars, cacheVars, driverVars, coreVars, flagVars, buildVars, versionVars, treeVars, keyVars, roundsVars, flushVars>>

otherThanKey == <<unifyVars, cacheVars, driverVars, coreVars, flagVars, buildVars, versionVars, treeVars, condVars, roundsVars, flushVars>>

\* what the steps of a flush leave alone, the cache apart
otherThanFlush == <<unifyVars, driverVars, coreVars, flagVars, buildVars, versionVars, treeVars, condVars, keyVars, roundsVars>>

\* what solve_in_rounds leaves alone
otherThanRounds == <<unifyVars, store_pc, entry_limit, driverVars, coreVars, flagVars, buildVars, versionVars, treeVars, condVars, keyVars, flushVars>>

\* what the solve driver leaves alone: part 1 and the parts of the cache
\* that only flush_manifest and cleanup touch
otherThanDriver ==
  <<unifyVars, manifest, store_pc, recorded, lastOp, entry_limit, analysisVars>>

(***************************************************************************)
(* Bounds of the model.                                                    *)
(***************************************************************************)
\* largest number of spec objects alive in the heap (inputs and copies)
MaxObjs == 14

(***************************************************************************)
(* PART 1.  Concrete specs, ConcreteSpecsByHash, hash unification.         *)
(*                                                                         *)
(* A spec object is a heap cell [name, edges]; an edge is a record         *)
(* [spec, depflag] whose spec is the index of the target object.  The      *)
(* first objects of the heap are the concrete specs handed to the          *)
(* container: w -> {x, z}, x -> y1, z -> y2.  y1 and y2 are separately     *)
(* built objects with equal dag hashes; q is an abstract spec.             *)
(***************************************************************************)
InputHeap ==
  << [name |-> "x", concrete |-> TRUE,
      edges |-> << [spec |-> 2, depflag |-> "link"] >>],
     [name |-> "y", concrete |-> TRUE, edges |-> << >>],
     [name |-> "z", concrete |-> TRUE,
      edges |-> << [spec |-> 4, depflag |-> "link"] >>],
     [name |-> "y", concrete |-> TRUE, edges |-> << >>],
     [name |-> "w", concrete |-> TRUE,
      edges |-> << [spec |-> 1, depflag |-> "build"],
                   [spec |-> 3, depflag |-> "link"] >>],
     [name |-> "q", concrete |-> FALSE, edges |-> << >>] >>

InputSpecs == 1..Len(InputHeap)

\* Spec.dag_hash: a content hash over the node and the hashes of its
\* dependencies (spec.md section 3)
RECURSIVE dag_hash(_, _)
dag_hash(h, o) ==
  [name |-> h[o].name,
   deps |-> { <<h[o].edges[i].depflag, dag_hash(h, h[o].edges[i].spec)>> :
                i \in 1..Len(h[o].edges) }]

Hashes == { dag_hash(InputHeap, o) : o \in InputSpecs }

\* Spec.copy(deps=False): a new object with the node's own fields, no edges
copy_nodeps(h, o) ==
  [name |-> h[o].name, concrete |-> h[o].concrete, edges |-> << >>]

\* Spec.add_dependency_edge on the object p of heap h
add_dependency_edge(h, p, child, flag) ==
  [h EXCEPT ![p].edges = Append(@, [spec |-> child, depflag |-> flag])]


\* ConcreteSpecsByHash.__init__: empty mapping (0 stands for a missing key)
EmptyData == [hh \in Hashes |-> 0]

\* the mutant of add_edges: every child is copied anew, also one that the
\* container already holds
RECURSIVE add_edges_always_copy(_, _, _, _)
add_edges_always_copy(st, input_parent, container_parent, i) ==
  IF i > Len(st.heap[input_parent].edges) THEN st
  ELSE
    LET edge == st.heap[input_parent].edges[i]
        input_child == edge.spec
        ch == dag_hash(st.heap, input_child)
        missing == st.data[ch] = 0
        heap1 == Append(st.heap, copy_nodeps(st.heap, input_child))
        container_child == Len(heap1)
        data1 == IF missing THEN [st.data EXCEPT ![ch] = container_child] ELSE st.data
        stack1 == IF missing THEN Append(st.stack, input_child) ELSE st.stack
        heap2 == add_dependency_edge(heap1, container_parent, container_child, edge.depflag)
    IN add_edges_always_copy([data |-> data1, heap |-> heap2, stack |-> stack1],
                             input_parent, container_parent, i + 1)

\* the loop body of add over the edges of one parent
\* (asp.py 1280-1292); st = [data, heap, stack]
RECURSIVE add_edges(_, _, _, _)
add_edges(st, input_parent, container_parent, i) ==
  IF i > Len(st.heap[input_parent].edges) THEN st
  ELSE
    LET edge == st.heap[input_parent].edges[i]
        input_child == edge.spec
        ch == dag_hash(st.heap, input_child)
        missing == st.data[ch] = 0
        heap1 == IF missing THEN Append(st.heap, copy_nodeps(st.heap, input_child))
                 ELSE st.heap
        container_child == IF missing THEN Len(heap1) ELSE st.data[ch]
        data1 == IF missing THEN [st.data EXCEPT ![ch] = container_child] ELSE st.data
        stack1 == IF missing THEN Append(st.stack, input_child) ELSE st.stack
        heap2 == add_dependency_edge(heap1, container_parent, container_child, edge.depflag)
    IN add_edges([data |-> data1, heap |-> heap2, stack |-> stack1],
                 input_parent, container_parent, i + 1)

\* while nodes_to_reconstruct: pop the last node, rewire its edges
RECURSIVE reconstruct(_)
reconstruct(st) ==
  IF st.stack = << >> THEN st
  ELSE
    LET input_parent == st.stack[Len(st.stack)]
        rest == SubSeq(st.stack, 1, Len(st.stack) - 1)
        container_parent == st.data[dag_hash(st.heap, input_parent)]
    IN reconstruct(add_edges([st EXCEPT !.stack = rest],
                             input_parent, container_parent, 1))

\* the mutant of add: the membership test is missing, the spec is copied and
\* stored again
add_no_membership_test(c, h, spec) ==
  LET hs == dag_hash(h, spec)
      explicit1 == c.explicit \cup {hs}
  IN IF ~h[spec].concrete
     THEN [data |-> c.data, explicit |-> c.explicit, heap |-> h, ret |-> "ValueError"]
     ELSE
       LET heap1 == Append(h, copy_nodeps(h, spec))
           data1 == [c.data EXCEPT ![hs] = Len(heap1)]
           st == reconstruct([data |-> data1, heap |-> heap1, stack |-> <<spec>>])
       IN [data |-> st.data, explicit |-> explicit1, heap |-> st.heap, ret |-> "True"]

\* ConcreteSpecsByHash.add(spec) on the container c = [data, explicit]
\* over heap h; yields the new container, the new heap and the return value
\* ("True", "False", or "ValueError" when the call raised)
add(c, h, spec) ==
  LET hs == dag_hash(h, spec)
      explicit1 == c.explicit \cup {hs}
  IN IF ~h[spec].concrete
     THEN [data |-> c.data, explicit |-> c.explicit, heap |-> h, ret |-> "ValueError"]
     ELSE IF c.data[hs] # 0
     THEN [data |-> c.data, explicit |-> explicit1, heap |-> h, ret |-> "False"]
     ELSE
       LET heap1 == Append(h, copy_nodeps(h, spec))
           data1 == [c.data EXCEPT ![hs] = Len(heap1)]
           st == reconstruct([data |-> data1, heap |-> heap1, stack |-> <<spec>>])
       IN [data |-> st.data, explicit |-> explicit1, heap |-> st.heap, ret |-> "True"]

\* NodeArgument(id, pkg): the node slots of one answer
NodeArgument(id, pkg) == [id |-> id, pkg |-> pkg]

SlotOrder ==
  << NodeArgument("0", "x"), NodeArgument("0", "z"), NodeArgument("0", "y"),
     NodeArgument("0", "w") >>

Slots == { SlotOrder[i] : i \in 1..Len(SlotOrder) }

\* The specs the attribute actions of build_specs have put in the slots
\* before unification: each filled slot holds a concrete spec of its package
PreSpecs ==
  { f \in [Slots -> InputSpecs \cup {0}] :
      /\ \E k \in Slots : f[k] # 0
      /\ \A k \in Slots : f[k] # 0 =>
            InputHeap[f[k]].name = k.pkg /\ InputHeap[f[k]].concrete }

\* the mutant of unify_hashes: the slot keeps the spec it had
RECURSIVE unify_hashes_no_rebind(_, _)
unify_hashes_no_rebind(st, i) ==
  IF i > Len(SlotOrder) THEN st
  ELSE
    LET key == SlotOrder[i]
        current_spec == st.specs[key]
    IN IF current_spec = 0 THEN unify_hashes_no_rebind(st, i + 1)
       ELSE
         LET r == add(st.unifier, st.heap, current_spec)
         IN unify_hashes_no_rebind(
              [unifier |-> [data |-> r.data, explicit |-> r.explicit],
               heap |-> r.heap, specs |-> st.specs], i + 1)

\* build_specs, 3918-3924: a fresh ConcreteSpecsByHash; every slot's spec is
\* added and the slot rebound to the object the unifier holds for its hash.
\* st = [unifier, heap, specs]
RECURSIVE unify_hashes(_, _)
unify_hashes(st, i) ==
  IF i > Len(SlotOrder) THEN st
  ELSE
    LET key == SlotOrder[i]
        current_spec == st.specs[key]
    IN IF current_spec = 0 THEN unify_hashes(st, i + 1)
       ELSE
         LET r == add(st.unifier, st.heap, current_spec)
             unified == r.data[dag_hash(r.heap, current_spec)]
         IN unify_hashes([unifier |-> [data |-> r.data, explicit |-> r.explicit],
                          heap |-> r.heap,
                          specs |-> [st.specs EXCEPT ![key] = unified]], i + 1)

UnifyInit ==
  /\ heap = InputHeap
  /\ data = EmptyData
  /\ explicit = {}
  /\ added = {}
  /\ lastAdd = [spec |-> 0, ret |-> None, again |-> FALSE]
  /\ _specs = [k \in Slots |-> 0]
  /\ pre_specs = [k \in Slots |-> 0]

\* one call of ConcreteSpecsByHash.add on the container (data, explicit)
Add(spec) ==
  LET r == add([data |-> data, explicit |-> explicit], heap, spec)
  IN /\ Len(r.heap) <= MaxObjs
     /\ heap' = r.heap
     /\ data' = r.data
     /\ explicit' = r.explicit
     /\ added' = added \cup {spec}
     /\ lastAdd' = [spec |-> spec, ret |-> r.ret, again |-> spec \in added]
     /\ UNCHANGED <<_specs, pre_specs>>
     /\ UNCHANGED otherThanUnify

\* the hash unification of one build_specs call whose slots hold pre
BuildSpecs(pre) ==
  LET r == unify_hashes([unifier |-> [data |-> EmptyData, explicit |-> {}],
                         heap |-> heap, specs |-> pre], 1)
  IN /\ \A k \in Slots : _specs[k] = 0
     /\ Len(r.heap) <= MaxObjs
     /\ heap' = r.heap
     /\ _specs' = r.specs
     /\ pre_specs' = pre
     /\ UNCHANGED <<data, explicit, added, lastAdd>>
     /\ UNCHANGED otherThanUnify


(***************************************************************************)
(* PART 2.  The concretization cache: entries, manifest, store, cleanup.   *)
(*                                                                         *)
(* Text is a sequence of one-character strings.  A problem is the sequence *)
(* of its lines, each line a number 0..9 standing for its text.            *)
(***************************************************************************)
Digits == <<"0", "1", "2", "3", "4", "5", "6", "7", "8", "9">>

\* f"{n}" for a natural number
RECURSIVE Dec(_)
Dec(n) == IF n < 10 THEN <<Digits[n + 1]>>
          ELSE Dec(n \div 10) \o <<Digits[(n % 10) + 1]>>

\* line.strip("\n")
RECURSIVE strip_newline(_)
strip_newline(t) ==
  IF t # << >> /\ Head(t) = "\n" THEN strip_newline(Tail(t))
  ELSE IF t # << >> /\ t[Len(t)] = "\n" THEN strip_newline(SubSeq(t, 1, Len(t) - 1))
  ELSE t

\* str.split(" "): the fields between single blanks
RECURSIVE split_blank(_, _)
split_blank(t, cur) ==
  IF t = << >> THEN <<cur>>
  ELSE IF Head(t) = " " THEN <<cur>> \o split_blank(Tail(t), << >>)
  ELSE split_blank(Tail(t), Append(cur, Head(t)))

\* file.readline() at position 0: the text up to and with the first newline
RECURSIVE readline(_)
readline(t) ==
  IF t = << >> THEN << >>
  ELSE IF Head(t) = "\n" THEN <<"\n">>
  ELSE <<Head(t)>> \o readline(Tail(t))

\* write(text) at position 0 of a file opened "r+": the text replaces the
\* characters it covers, the rest of the file stays
overwrite_at_start(content, text) ==
  IF Len(text) >= Len(content) THEN text
  ELSE text \o SubSeq(content, Len(text) + 1, Len(content))

\* ConcretizationCache._parse_manifest_entry (asp.py 695-703): both return
\* statements yield (None, None)
_parse_manifest_entry(line) ==
  IF line # << >>
  THEN LET cache_values == split_blank(strip_newline(line), << >>)
       IN IF Len(cache_values) < 2 THEN <<None, None>> ELSE <<None, None>>
  ELSE <<None, None>>

\* ConcretizationCache._extract_cache_metadata: parse of the first line
_extract_cache_metadata(cache_stream) == _parse_manifest_entry(readline(cache_stream))

\* hashlib.sha256(problem).hexdigest(): an injective image of the problem text
sha256_hexdigest(problem) ==
  <<"h">> \o [i \in 1..Len(problem) |-> Digits[problem[i] + 1]]

\* ConcretizationCache._prefix_digest
_prefix_digest(problem) ==
  LET prob_digest == sha256_hexdigest(problem)
  IN <<SubSeq(prob_digest, 1, 2), prob_digest>>

\* ConcretizationCache._cache_path_from_problem: <prefix>/<digest>
_cache_path_from_problem(problem) ==
  [parent |-> _prefix_digest(problem)[1], name |-> _prefix_digest(problem)[2]]

\* the problems of the cache model: two programs with the same rule file
Problems == { <<1, 7>>, <<2, 7>> }

\* the serialised results two solves may write, with the number of
\* characters json.dumps gives each
CacheDicts == { [results |-> "result-1", statistics |-> "stats", bytes |-> 7],
                [results |-> "result-2", statistics |-> "stats", bytes |-> 12] }

\* the processes that share one cache root
Procs == {"A", "B"}

\* config:concretization_cache:entry_limit as configured for the run
EntryLimits == {0, 1}

\* config:concretization_cache:size_limit (default, asp.py 622)
bytes_limit == 300000000

\* flush_manifest is taken while the manifest is at most this long
MaxManifestLen == 18


\* FileCache.init_entry: whether the cache file exists yet
init_entry(ents, cache_path) == cache_path.name \in DOMAIN ents

\* the end of a FileCache.write_transaction whose body left by return: what
\* was written to the new file becomes the entry; a body that wrote nothing
\* (written = << >>) leaves the entry as it was
write_transaction_exit(ents, cache_path, written) ==
  IF written = << >> THEN ents
  ELSE [k \in DOMAIN ents \cup {cache_path.name} |->
          IF k = cache_path.name THEN written[1] ELSE ents[k]]

\* the mutant of store_transaction: the body writes without looking at old
store_transaction_overwrite(ents, queue, cache_path, cache_dict) ==
  [entries |-> write_transaction_exit(ents, cache_path, <<cache_dict>>),
   queue |-> Append(queue, <<cache_path, cache_dict.bytes>>),
   ret |-> "written"]

\* ConcretizationCache.store, 844-851: the write transaction, run under the
\* entry's lock
store_transaction(ents, queue, cache_path, cache_dict) ==
  LET old == IF cache_path.name \in DOMAIN ents THEN <<ents[cache_path.name]>> ELSE << >>
  IN IF old # << >>
     THEN [entries |-> write_transaction_exit(ents, cache_path, << >>),
           queue |-> queue, ret |-> "exists"]
     ELSE [entries |-> write_transaction_exit(ents, cache_path, <<cache_dict>>),
           queue |-> Append(queue, <<cache_path, cache_dict.bytes>>),
           ret |-> "written"]

\* the text flush_manifest appends for the queued updates (799-803)
RECURSIVE queue_text(_)
queue_text(queue) ==
  IF queue = << >> THEN << >>
  ELSE Head(queue)[1].name \o <<" ">> \o Dec(Head(queue)[2]) \o queue_text(Tail(queue))

RECURSIVE queue_bytes(_)
queue_bytes(queue) ==
  IF queue = << >> THEN 0 ELSE Head(queue)[2] + queue_bytes(Tail(queue))

\* ConcretizationCache.flush_manifest (785-806) on the manifest text m
flush_manifest(m, queue) ==
  LET md == _extract_cache_metadata(m)
      uninitialized == md[1] = None \/ md[2] = None
      count0 == IF uninitialized THEN 0 ELSE md[1]
      cache_bytes0 == IF uninitialized THEN 0 ELSE md[2]
      appended == m \o queue_text(queue)
      count == count0 + Len(queue)
      cache_bytes == cache_bytes0 + queue_bytes(queue)
      new_stats == Dec(count + 1) \o <<" ">> \o Dec(cache_bytes) \o <<"\n">>
  IN overwrite_at_start(appended, new_stats)

\* ConcretizationCache.cleanup (617-677) on manifest m and entries ents.  The
\* pruning branches are entered only with a count and a byte count parsed
\* from the first line.
cleanup(m, ents, elimit, blimit) ==
  LET md == _extract_cache_metadata(m)
  IN IF md[1] = None \/ md[2] = None
     THEN [manifest |-> m, entries |-> ents, ret |-> "return"]
     ELSE IF md[1] > elimit /\ elimit > 0
     THEN [manifest |-> m, entries |-> ents, ret |-> "pruned-by-count"]
     ELSE IF md[2] > blimit /\ blimit > 0
     THEN [manifest |-> m, entries |-> ents, ret |-> "pruned-by-size"]
     ELSE [manifest |-> m, entries |-> ents, ret |-> "within-limits"]

CacheInit ==
  /\ entries = << >>
  /\ manifest = << >>
  /\ _manifest_queue = [w \in Procs |-> << >>]
  /\ store_pc = [w \in Procs |-> << >>]
  /\ recorded = << >>
  /\ stored = << >>
  /\ lastOp = [op |-> None]
  /\ entry_limit \in EntryLimits

\* store, 838-843: init_entry; an existing entry ends the call.  store_pc[w]
\* is << >> outside a call and <<cache_path, cache_dict>> between init_entry
\* and the write transaction
StoreInit(w, problem, cache_dict) ==
  LET cache_path == _cache_path_from_problem(problem)
  IN /\ store_pc[w] = << >>
     /\ IF init_entry(entries, cache_path)
        THEN /\ lastOp' = [op |-> "store", proc |-> w, ret |-> "exists-at-init",
                           path |-> cache_path.name, dict |-> cache_dict]
             /\ UNCHANGED store_pc
        ELSE /\ store_pc' = [store_pc EXCEPT ![w] = <<cache_path, cache_dict>>]
             /\ lastOp' = [op |-> "init_entry", proc |-> w]
     /\ UNCHANGED <<entries, manifest, _manifest_queue, recorded, stored, entry_limit>>
     /\ UNCHANGED otherThanCache

\* store, 844-851: the write transaction of a call that passed init_entry
StoreTransaction(w) ==
  /\ store_pc[w] # << >>
  /\ LET r == store_transaction(entries, _manifest_queue[w],
                                store_pc[w][1], store_pc[w][2])
     IN /\ entries' = r.entries
        /\ _manifest_queue' = [_manifest_queue EXCEPT ![w] = r.queue]
        /\ stored' = IF r.ret = "written"
                     THEN Append(stored, store_pc[w][1].name)
                     ELSE stored
        /\ lastOp' = [op |-> "store", proc |-> w, ret |-> r.ret,
                      path |-> store_pc[w][1].name,
                      dict |-> store_pc[w][2]]
  /\ store_pc' = [store_pc EXCEPT ![w] = << >>]
  /\ UNCHANGED <<manifest, recorded, entry_limit>>
  /\ UNCHANGED otherThanCache

\* the queued updates that no flush has handed to the manifest yet
RECURSIVE new_records(_, _)
new_records(queue, rec) ==
  IF queue = << >> THEN << >>
  ELSE IF \E i \in 1..Len(rec) : rec[i] = <<Head(queue)[1].name, Head(queue)[2]>>
       THEN new_records(Tail(queue), rec)
       ELSE <<<<Head(queue)[1].name, Head(queue)[2]>>>>
              \o new_records(Tail(queue), rec)

\* one call of flush_manifest by process w
FlushManifest(w) ==
  /\ store_pc[w] = << >>
  /\ Len(manifest) <= MaxManifestLen
  /\ manifest' = flush_manifest(manifest, _manifest_queue[w])
  /\ recorded' = recorded \o new_records(_manifest_queue[w], recorded)
  /\ lastOp' = [op |-> "flush_manifest", proc |-> w]
  /\ UNCHANGED <<entries, _manifest_queue, store_pc, stored, entry_limit>>
  /\ UNCHANGED otherThanCache

\* one call of cleanup by process w
Cleanup(w) ==
  /\ store_pc[w] = << >>
  /\ manifest # << >>
  /\ LET r == cleanup(manifest, entries, entry_limit, bytes_limit)
     IN /\ manifest' = r.manifest
        /\ entries' = r.entries
        /\ lastOp' = [op |-> "cleanup", proc |-> w, ret |-> r.ret,
                      before |-> Len(stored)]
  /\ UNCHANGED <<_manifest_queue, store_pc, recorded, stored, entry_limit>>
  /\ UNCHANGED otherThanCache

CacheNext ==
  \/ \E w \in Procs, problem \in Problems, cache_dict \in CacheDicts :
       StoreInit(w, problem, cache_dict)
  \/ \E w \in Procs : StoreTransaction(w)
  \/ \E w \in Procs : FlushManifest(w)
  \/ \E w \in Procs : Cleanup(w)


(***************************************************************************)
(* PART 3.  Result and its serialisation.                                  *)
(*                                                                         *)
(* The answers and the criteria are Python lists (sequences) of tuples and *)
(* named tuples; each of these items is a record [t, v] of its type and    *)
(* its items, so that what json.dumps/json.loads do to it shows.           *)
(***************************************************************************)
PyTuple(v) == [t |-> "tuple", v |-> v]

PyList(v) == [t |-> "list", v |-> v]

\* OptimizationCriteria(priority, value, name, kind), a NamedTuple (178-184)
OptimizationCriteria(priority, value, name, kind) ==
  [t |-> "OptimizationCriteria", v |-> <<priority, value, name, kind>>]

\* abstract specs of the requests: a name and an optional version
AbstractSpec(name, version) == [name |-> name, version |-> version]

\* str(spec) of an abstract spec, and Spec(text)
spec_str(spec) ==
  IF spec.version = "" THEN <<spec.name>> ELSE <<spec.name, "@", spec.version>>

spec_from_str(text) ==
  AbstractSpec(text[1], IF Len(text) = 3 THEN text[3] ELSE "")

\* Spec.to_dict of a concrete spec and Spec.from_dict
concrete_to_dict(spec) == [spec |-> [nodes |-> <<[name |-> spec.name, hash |-> spec.hash]>>]]

concrete_from_dict(spec_dict) ==
  [name |-> spec_dict.spec.nodes[1].name, hash |-> spec_dict.spec.nodes[1].hash]

\* Result.__init__ (308-348); the three derived attributes are None
\* (computed is FALSE) until _compute_specs_from_answer_set or from_dict
\* fills them
Result(specs, asp) ==
  [asp |-> asp, satisfiable |-> FALSE, optimal |-> None, warnings |-> None,
   nmodels |-> 0, answers |-> << >>, criteria |-> << >>, abstract_specs |-> specs,
   specs_by_input |-> << >>, specs |-> << >>, unsolved_specs |-> << >>,
   computed |-> FALSE]

\* the dict literal {k: v} extended by one item
dict_set(d, k, v) == [x \in DOMAIN d \cup {k} |-> IF x = k THEN v ELSE d[x]]

\* the mutant of match_inputs: a candidate that does not satisfy its input
\* is taken as well
RECURSIVE match_inputs_any_candidate(_, _, _, _, _)
match_inputs_any_candidate(res, answer, satisfied, build_satisfied, i) ==
  IF i > Len(res.abstract_specs) THEN res
  ELSE
    LET input_spec == res.abstract_specs[i]
        node == NodeArgument("0", input_spec.name)
        has_candidate == node \in DOMAIN answer
    IN IF has_candidate
       THEN match_inputs_any_candidate(
              [res EXCEPT !.specs = Append(@, answer[node]),
                          !.specs_by_input = dict_set(@, input_spec, answer[node])],
              answer, satisfied, build_satisfied, i + 1)
       ELSE match_inputs_any_candidate(
              [res EXCEPT !.unsolved_specs = Append(@, <<input_spec, << >> >>)],
              answer, satisfied, build_satisfied, i + 1)

\* Result._compute_specs_from_answer_set (470-503) for the inputs from
\* position i on; satisfied are the inputs that their candidate satisfies,
\* build_satisfied those that the build spec of their candidate satisfies
RECURSIVE match_inputs(_, _, _, _, _)
match_inputs(res, answer, satisfied, build_satisfied, i) ==
  IF i > Len(res.abstract_specs) THEN res
  ELSE
    LET input_spec == res.abstract_specs[i]
        node == NodeArgument("0", input_spec.name)
        has_candidate == node \in DOMAIN answer
    IN IF has_candidate /\ input_spec \in satisfied
       THEN match_inputs(
              [res EXCEPT !.specs = Append(@, answer[node]),
                          !.specs_by_input = dict_set(@, input_spec, answer[node])],
              answer, satisfied, build_satisfied, i + 1)
       ELSE IF has_candidate /\ input_spec \in build_satisfied
       THEN match_inputs(
              [res EXCEPT !.specs = Append(@, answer[node]),
                          !.specs_by_input = dict_set(@, input_spec, answer[node])],
              answer, satisfied, build_satisfied, i + 1)
       ELSE match_inputs(
              [res EXCEPT !.unsolved_specs =
                 Append(@, <<input_spec,
                             IF has_candidate THEN <<answer[node]>> ELSE << >> >>)],
              answer, satisfied, build_satisfied, i + 1)

\* the mutant of _compute_specs_from_answer_set: an unsatisfiable Result
\* lists no unsolved spec
_compute_specs_unsat_lists_nothing(res, satisfied, build_satisfied) ==
  IF ~res.satisfiable
  THEN [res EXCEPT !.specs = << >>, !.specs_by_input = << >>, !.computed = TRUE,
                   !.unsolved_specs = << >>]
  ELSE match_inputs([res EXCEPT !.specs = << >>, !.specs_by_input = << >>,
                                !.unsolved_specs = << >>, !.computed = TRUE],
                    res.answers[1].v[3], satisfied, build_satisfied, 1)

_compute_specs_from_answer_set(res, satisfied, build_satisfied) ==
  IF ~res.satisfiable
  THEN [res EXCEPT !.specs = << >>, !.specs_by_input = << >>, !.computed = TRUE,
                   !.unsolved_specs =
                      [i \in 1..Len(res.abstract_specs) |-> <<res.abstract_specs[i], << >> >>]]
  ELSE match_inputs([res EXCEPT !.specs = << >>, !.specs_by_input = << >>,
                                !.unsolved_specs = << >>, !.computed = TRUE],
                    res.answers[1].v[3], satisfied, build_satisfied, 1)

\* serial_node_arg (526-528) and _dict_to_node_argument(json.loads(node))
serial_node_arg(node) == <<"id", node.id, "pkg", node.pkg>>

_dict_to_node_argument(text) == NodeArgument(text[2], text[4])

\* Result.to_dict (520-550)
to_dict(res) ==
  [asp |-> res.asp,
   criteria |-> res.criteria,
   optimal |-> res.optimal,
   warnings |-> res.warnings,
   nmodels |-> res.nmodels,
   abstract_specs |-> [i \in 1..Len(res.abstract_specs) |->
                         spec_str(res.abstract_specs[i])],
   satisfiable |-> res.satisfiable,
   answers |-> [i \in 1..Len(res.answers) |->
                 LET answer == res.answers[i].v
                     keys == { serial_node_arg(n) : n \in DOMAIN answer[3] }
                 IN PyTuple(<<answer[1], answer[2],
                              [k \in keys |->
                                 concrete_to_dict(
                                   answer[3][CHOOSE n \in DOMAIN answer[3] :
                                               serial_node_arg(n) = k])]>>)],
   specs_by_input |-> [k \in { spec_str(x) : x \in DOMAIN res.specs_by_input } |->
                         concrete_to_dict(
                           res.specs_by_input[CHOOSE x \in DOMAIN res.specs_by_input :
                                                spec_str(x) = k])]]

\* json.loads(json.dumps(x)) for the value of to_dict: tuples and named
\* tuples come back as lists, the rest as it was
json_item(x) == PyList(x.v)

json_round_trip(obj) ==
  [obj EXCEPT !.criteria = [i \in 1..Len(@) |-> json_item(@[i])],
              !.answers = [i \in 1..Len(@) |-> json_item(@[i])]]

\* the concrete specs of the restored specs_by_input, in the order of the
\* dict, which is the order of the inputs
RECURSIVE restored_specs(_, _, _)
restored_specs(by_input, inputs, i) ==
  IF i > Len(inputs) THEN << >>
  ELSE IF inputs[i] \in DOMAIN by_input
          /\ \A j \in 1..(i - 1) : inputs[j] # inputs[i]
       THEN <<by_input[inputs[i]]>> \o restored_specs(by_input, inputs, i + 1)
       ELSE restored_specs(by_input, inputs, i + 1)

\* the mutant of from_dict: the criteria are not restored
from_dict_without_criteria(obj) ==
  IF obj.abstract_specs = << >>
  THEN [raised |-> "RuntimeError", result |-> << >>]
  ELSE IF \E i \in 1..Len(obj.answers) : obj.answers[i].t = "tuple"
  THEN [raised |-> "AttributeError", result |-> << >>]
  ELSE
    LET spec_list == [i \in 1..Len(obj.abstract_specs) |->
                        spec_from_str(obj.abstract_specs[i])]
        by_input == [x \in { spec_from_str(k) : k \in DOMAIN obj.specs_by_input } |->
                       concrete_from_dict(
                         obj.specs_by_input[CHOOSE k \in DOMAIN obj.specs_by_input :
                                              spec_from_str(k) = x])]
        answers == [i \in 1..Len(obj.answers) |->
                      LET answer == obj.answers[i].v
                      IN PyTuple(<<answer[1], answer[2],
                                   [n \in { _dict_to_node_argument(k) : k \in DOMAIN answer[3] } |->
                                      concrete_from_dict(
                                        answer[3][CHOOSE k \in DOMAIN answer[3] :
                                                    _dict_to_node_argument(k) = n])]>>)]
    IN [raised |-> None,
        result |-> << [Result(spec_list, obj.asp) EXCEPT
                         !.optimal = obj.optimal,
                         !.warnings = obj.warnings,
                         !.nmodels = obj.nmodels,
                         !.satisfiable = obj.satisfiable,
                         !.unsolved_specs = << >>,
                         !.computed = TRUE,
                         !.answers = answers,
                         !.specs_by_input = by_input,
                         !.specs = restored_specs(by_input, spec_list, 1)] >>]

\* Result.from_dict (552-597): the Result, or the exception raised.
\* loaded_answer = answer[:2] is of the type of answer, and only a list has
\* the append of line 589
from_dict(obj) ==
  IF obj.abstract_specs = << >>
  THEN [raised |-> "RuntimeError", result |-> << >>]
  ELSE IF \E i \in 1..Len(obj.answers) : obj.answers[i].t = "tuple"
  THEN [raised |-> "AttributeError", result |-> << >>]
  ELSE
    LET spec_list == [i \in 1..Len(obj.abstract_specs) |->
                        spec_from_str(obj.abstract_specs[i])]
        by_input == [x \in { spec_from_str(k) : k \in DOMAIN obj.specs_by_input } |->
                       concrete_from_dict(
                         obj.specs_by_input[CHOOSE k \in DOMAIN obj.specs_by_input :
                                              spec_from_str(k) = x])]
        answers == [i \in 1..Len(obj.answers) |->
                      LET answer == obj.answers[i].v
                      IN PyTuple(<<answer[1], answer[2],
                                   [n \in { _dict_to_node_argument(k) : k \in DOMAIN answer[3] } |->
                                      concrete_from_dict(
                                        answer[3][CHOOSE k \in DOMAIN answer[3] :
                                                    _dict_to_node_argument(k) = n])]>>)]
    IN [raised |-> None,
        result |-> << [Result(spec_list, obj.asp) EXCEPT
                         !.criteria = obj.criteria,
                         !.optimal = obj.optimal,
                         !.warnings = obj.warnings,
                         !.nmodels = obj.nmodels,
                         !.satisfiable = obj.satisfiable,
                         !.unsolved_specs = << >>,
                         !.computed = TRUE,
                         !.answers = answers,
                         !.specs_by_input = by_input,
                         !.specs = restored_specs(by_input, spec_list, 1)] >>]


(***************************************************************************)
(* PART 4.  PyclingoDriver.solve: setup, cache check, load, ground, solve  *)
(* under the time limit, construction of the Result, store.                *)
(***************************************************************************)
\* the requests of the model
SpecA == AbstractSpec("a", "")
SpecB == AbstractSpec("b", "1")

InputLists == { <<SpecA>>, <<SpecA, SpecB>> }

\* the fact line setup emits for a request
fact_line(spec) == IF spec.name = "a" THEN 1 ELSE 2

\* SpackSolverSetup.setup up to gen.value(): the lines in emission order
emitted_lines(specs) == [i \in 1..Len(specs) |-> fact_line(specs[i])]

\* the number of times x occurs in the sequence
occurrences(seq, x) == Cardinality({ i \in 1..Len(seq) : seq[i] = x })

same_lines(p, q) == \A x \in 0..9 : occurrences(p, x) = occurrences(q, x)

\* ProblemInstanceBuilder.value (3510-3513): the emission order, or any
\* order of the same lines when randomize is set
gen_value(lines, randomize) ==
  IF randomize
  THEN { q \in [1..Len(lines) -> { lines[i] : i \in 1..Len(lines) }] : same_lines(lines, q) }
  ELSE { lines }

\* sorted(list)
RECURSIVE insert_sorted(_, _)
insert_sorted(x, seq) ==
  IF seq = << >> THEN <<x>>
  ELSE IF x <= Head(seq) THEN <<x>> \o seq
  ELSE <<Head(seq)>> \o insert_sorted(x, Tail(seq))

RECURSIVE sorted(_)
sorted(seq) == IF seq = << >> THEN << >> ELSE insert_sorted(Head(seq), sorted(Tail(seq)))

using_libc_compatibility == TRUE

\* solve, 1080-1088: the rule files of a solve
control_files(concretize_everything, enable_splicing) ==
  <<"concretize.lp", "heuristic.lp", "display.lp", "direct_dependency.lp">>
  \o (IF ~concretize_everything THEN <<"when_possible.lp">> ELSE << >>)
  \o (IF using_libc_compatibility THEN <<"libc_compatibility.lp">>
      ELSE <<"os_compatibility.lp">>)
  \o (IF enable_splicing THEN <<"splices.lp">> ELSE << >>)

\* the text of a rule file, as one line
file_text(name) ==
  CASE name = "concretize.lp" -> 3
    [] name = "heuristic.lp" -> 4
    [] name = "display.lp" -> 5
    [] name = "direct_dependency.lp" -> 6
    [] name = "when_possible.lp" -> 7
    [] name = "libc_compatibility.lp" -> 8
    [] name = "os_compatibility.lp" -> 9
    [] name = "splices.lp" -> 0

\* the mutant of problem_repr: the lines are not sorted
problem_repr_unsorted(asp_problem, ctrl) ==
  asp_problem \o [i \in 1..Len(ctrl) |-> file_text(ctrl[i])]

\* solve, 1101-1108: the sorted lines of the program, then the rule files
problem_repr(asp_problem, ctrl) ==
  sorted(asp_problem) \o [i \in 1..Len(ctrl) |-> file_text(ctrl[i])]

\* what the solver does in one run: it reports n models, the i-th at time i
\* with the cost vector costs[i], and ends its search at time finish; errors
\* are the models that hold error facts.  The specs built from a model have
\* a node for the packages in nodes; satisfied are the requests that their
\* candidate satisfies and build_satisfied those that the build spec of
\* their candidate satisfies (a spec that is not spliced is its build spec)
Runs ==
  { [n |-> 0, finish |-> 1, costs |-> << >>, errors |-> {}, nodes |-> {"a", "b"},
     satisfied |-> {SpecA, SpecB}, build_satisfied |-> {SpecA, SpecB}],
    [n |-> 1, finish |-> 1, costs |-> << <<1, 0>> >>, errors |-> {}, nodes |-> {"a", "b"},
     satisfied |-> {SpecA, SpecB}, build_satisfied |-> {SpecA, SpecB}],
    [n |-> 1, finish |-> 1, costs |-> << <<1, 0>> >>, errors |-> {1}, nodes |-> {"a", "b"},
     satisfied |-> {SpecA, SpecB}, build_satisfied |-> {SpecA, SpecB}],
    [n |-> 1, finish |-> 1, costs |-> << <<1, 0>> >>, errors |-> {}, nodes |-> {"a"},
     satisfied |-> {SpecA}, build_satisfied |-> {SpecA}],
    [n |-> 1, finish |-> 2, costs |-> << <<1, 0>> >>, errors |-> {}, nodes |-> {"a", "b"},
     satisfied |-> {SpecA, SpecB}, build_satisfied |-> {SpecA, SpecB}],
    [n |-> 2, finish |-> 2, costs |-> << <<1, 0>>, <<0, 2>> >>, errors |-> {1},
     nodes |-> {"a", "b"},
     satisfied |-> {SpecA}, build_satisfied |-> {SpecA}],
    [n |-> 2, finish |-> 2, costs |-> << <<0, 2>>, <<1, 0>> >>, errors |-> {},
     nodes |-> {"a", "b"},
     satisfied |-> {SpecB}, build_satisfied |-> {SpecA, SpecB}],
    [n |-> 2, finish |-> 2, costs |-> << <<0, 1>>, <<0, 1>> >>, errors |-> {1},
     nodes |-> {"a", "b"},
     satisfied |-> {SpecA, SpecB}, build_satisfied |-> {SpecA, SpecB}] }

NoRun ==
  [n |-> 0, finish |-> 0, costs |-> << >>, errors |-> {}, nodes |-> {},
   satisfied |-> {}, build_satisfied |-> {}]

\* concretizer:timeout as configured, in seconds
TimeLimits == {0, 1, 2}

\* the largest number of solve calls in one behaviour
MaxCalls == 2

\* SolveHandle.wait(timeout) of clingo: a negative timeout blocks until the
\* search has ended, another one tells whether it ended within the timeout
handle_wait(search, timeout) == timeout < 0 \/ search.finish <= timeout

\* the mutant of solve_wait: the configured limit goes to clingo as it is
solve_wait_zero_not_mapped(limit, on_timeout_error, search) ==
  LET finished == handle_wait(search, limit)
  IN [finished |-> finished,
      raised |-> ~finished /\ on_timeout_error,
      cancelled |-> ~finished /\ ~on_timeout_error,
      reported |-> IF finished \/ search.n <= limit THEN search.n ELSE limit]

\* solve, 1146-1166: the wait under the time limit
solve_wait(limit, on_timeout_error, search) ==
  LET clingo_limit == IF limit = 0 THEN -1 ELSE limit
      finished == handle_wait(search, clingo_limit)
  IN [finished |-> finished,
      raised |-> ~finished /\ on_timeout_error,
      cancelled |-> ~finished /\ ~on_timeout_error,
      reported |-> IF finished \/ search.n <= clingo_limit THEN search.n ELSE clingo_limit]

\* on_model (1134-1135): the models reported, as (cost, symbols) pairs
reported_models(search, reported) == [i \in 1..reported |-> <<search.costs[i], i>>]

\* a < b for two Python lists of integers
RECURSIVE list_lt(_, _)
list_lt(a, b) ==
  IF b = << >> THEN FALSE
  ELSE IF a = << >> THEN TRUE
  ELSE IF Head(a) < Head(b) THEN TRUE
  ELSE IF Head(a) > Head(b) THEN FALSE
  ELSE list_lt(Tail(a), Tail(b))

\* x < y for two (cost, symbols) tuples
model_lt(x, y) == list_lt(x[1], y[1]) \/ (x[1] = y[1] /\ x[2] < y[2])

\* the mutant of min_model: the model reported last
min_model_last_reported(ms) == ms[Len(ms)]

\* min(models) (1176): the least pair, by cost and then by symbols
min_model(ms) ==
  CHOOSE m \in { ms[i] : i \in 1..Len(ms) } :
    \A i \in 1..Len(ms) : ~model_lt(ms[i], m)

\* the mutant of raise_if_errors: no error fact is looked for
raise_if_errors_never(search, model) == FALSE

\* ErrorHandler.raise_if_errors (998-1033): whether it raises for the model
raise_if_errors(search, model) == model[2] \in search.errors

\* SpecBuilder.build_specs for the driver: one concrete spec for each request
\* whose package has a node in the model
build_answer(specs, model, nodes) ==
  [node \in { NodeArgument("0", specs[i].name) :
                i \in { j \in 1..Len(specs) : specs[j].name \in nodes } } |->
     [name |-> node.pkg, hash |-> <<node.pkg, model[2]>>]]

\* build_criteria_names (187-218): one criterion per cost
build_criteria_names(costs) ==
  [i \in 1..Len(costs) |-> OptimizationCriteria(100 - i, costs[i], "criterion", 2)]

\* len(json.dumps(cache_dict)): a count of the items of the document
json_len(results) ==
  10 + 5 * Len(results.abstract_specs) + 3 * Len(results.criteria)
     + 4 * Cardinality(DOMAIN results.specs_by_input)

\* the mutant of fetch: no entry is ever found
fetch_never_hits(ents, problem) ==
  [hit |-> FALSE, raised |-> None, result |-> << >>, statistics |-> << >>]

\* ConcretizationCache.fetch (853-870) with _results_from_cache and
\* _stats_from_cache
fetch(ents, problem) ==
  LET cache_path == _cache_path_from_problem(problem)
  IN IF cache_path.name \notin DOMAIN ents
     THEN [hit |-> FALSE, raised |-> None, result |-> << >>, statistics |-> << >>]
     ELSE
       LET cache_entry == ents[cache_path.name]
           loaded == from_dict(cache_entry.results)
       IN IF loaded.raised # None
          THEN [hit |-> FALSE, raised |-> loaded.raised, result |-> << >>,
                statistics |-> << >>]
          ELSE [hit |-> TRUE, raised |-> None, result |-> loaded.result,
                statistics |-> <<cache_entry.statistics>>]

\* the mutant of store: nothing is written
store_writes_nothing(ents, queue, problem, res, statistics) ==
  [entries |-> ents, queue |-> queue, ret |-> "exists-at-init"]

\* ConcretizationCache.store (830-851) by a process that nobody interleaves
store(ents, queue, problem, res, statistics) ==
  LET cache_path == _cache_path_from_problem(problem)
      results == json_round_trip(to_dict(res))
      cache_dict == [results |-> results, statistics |-> statistics,
                     bytes |-> json_len(results)]
  IN IF init_entry(ents, cache_path)
     THEN [entries |-> ents, queue |-> queue, ret |-> "exists-at-init"]
     ELSE store_transaction(ents, queue, cache_path, cache_dict)

\* control.statistics after a solve
control_statistics(ms) == [summary |-> [models |-> Len(ms)]]

\* the lines of a program, whatever their order
line_bag(asp_problem) == [x \in 0..9 |-> occurrences(asp_problem, x)]

\* the configurations of the model: config:concretization_cache:enable,
\* concretizer:timeout, concretizer:error_on_timeout and the splicing switch
Configs ==
  [conc_cache_enabled : BOOLEAN, time_limit : TimeLimits, error_on_timeout : BOOLEAN,
   enable_splicing : BOOLEAN]

NoCall ==
  [specs |-> << >>, concretize_everything |-> TRUE, setup_only |-> FALSE,
   control_files |-> << >>, asp_problem |-> << >>, problem_repr |-> << >>,
   expect_hit |-> FALSE]

NoWait == [finished |-> FALSE, raised |-> FALSE, cancelled |-> FALSE, reported |-> 0]

NoOutcome ==
  [kind |-> "none", error |-> None, from_cache |-> FALSE, result |-> << >>,
   statistics |-> << >>]

raised(error) ==
  [kind |-> "raised", error |-> error, from_cache |-> FALSE, result |-> << >>,
   statistics |-> << >>]

returned(res, statistics, from_cache) ==
  [kind |-> "returned", error |-> None, from_cache |-> from_cache, result |-> <<res>>,
   statistics |-> statistics]

\* whether a solve of the same lines under the same rule files has stored
\* its result
solved_before(done, asp_problem, ctrl) ==
  \E c \in done : c[1] = line_bag(asp_problem) /\ c[2] = ctrl

DriverInit ==
  /\ config \in Configs
  /\ pc = "idle"
  /\ call = NoCall
  /\ run = NoRun
  /\ wait = NoWait
  /\ models = << >>
  /\ built = << >>
  /\ result = << >>
  /\ outcome = NoOutcome
  /\ completed = {}
  /\ ncalls = 0

\* solve, 1069-1108: the call, setup, and the text the cache key is made of.
\* With output.setup_only the call returns right after setup (1094-1095).
SolveCall(specs, concretize_everything, setup_only, randomize, asp_problem) ==
  LET ctrl == control_files(concretize_everything, config.enable_splicing)
  IN /\ pc = "idle"
     /\ ncalls < MaxCalls
     /\ asp_problem \in gen_value(emitted_lines(specs), randomize)
     /\ ncalls' = ncalls + 1
     /\ run' = NoRun
     /\ wait' = NoWait
     /\ models' = << >>
     /\ built' = << >>
     /\ result' = << >>
     /\ IF setup_only
        THEN /\ call' = [NoCall EXCEPT !.specs = specs,
                           !.concretize_everything = concretize_everything,
                           !.setup_only = TRUE,
                           !.control_files = ctrl,
                           !.asp_problem = asp_problem,
                           !.expect_hit = solved_before(completed, asp_problem, ctrl)]
             /\ pc' = "idle"
             /\ outcome' = returned(Result(specs, None), << >>, FALSE)
        ELSE /\ call' = [specs |-> specs,
                         concretize_everything |-> concretize_everything,
                         setup_only |-> FALSE,
                         control_files |-> ctrl,
                         asp_problem |-> asp_problem,
                         problem_repr |-> problem_repr(asp_problem, ctrl),
                         expect_hit |-> solved_before(completed, asp_problem, ctrl)]
             /\ pc' = "cache-check"
             /\ outcome' = NoOutcome
     /\ UNCHANGED <<config, completed, entries, _manifest_queue, stored>>
     /\ UNCHANGED otherThanDriver

\* solve, 1110-1116: the lookup in the cache
CacheCheck ==
  /\ pc = "cache-check"
  /\ IF config.conc_cache_enabled
     THEN LET f == fetch(entries, call.problem_repr)
          IN IF f.raised # None
             THEN pc' = "idle" /\ outcome' = raised(f.raised)
             ELSE IF f.hit
             THEN pc' = "idle" /\ outcome' = returned(f.result[1], f.statistics, TRUE)
             ELSE pc' = "load" /\ UNCHANGED outcome
     ELSE pc' = "load" /\ UNCHANGED outcome
  /\ UNCHANGED <<config, call, run, wait, models, built, result, completed, ncalls,
                 entries, _manifest_queue, stored>>
  /\ UNCHANGED otherThanDriver

\* solve, 1117-1122: the program and the rule files go to the solver
Load ==
  /\ pc = "load"
  /\ pc' = "ground"
  /\ UNCHANGED <<config, call, run, wait, models, built, result, outcome, completed,
                 ncalls,
                 entries, _manifest_queue, stored>>
  /\ UNCHANGED otherThanDriver

\* solve, 1126-1128
Ground ==
  /\ pc = "ground"
  /\ pc' = "solve"
  /\ UNCHANGED <<config, call, run, wait, models, built, result, outcome, completed,
                 ncalls,
                 entries, _manifest_queue, stored>>
  /\ UNCHANGED otherThanDriver

\* solve, 1131-1168: the asynchronous solve and the wait under the time limit
Solve(r) ==
  /\ pc = "solve"
  /\ run' = r
  /\ LET w == solve_wait(config.time_limit, config.error_on_timeout, r)
     IN /\ wait' = w
        /\ IF w.raised
           THEN /\ pc' = "idle"
                /\ outcome' = raised("UnsatisfiableSpecError")
                /\ UNCHANGED models
           ELSE /\ pc' = "construct"
                /\ models' = reported_models(r, w.reported)
                /\ UNCHANGED outcome
  /\ UNCHANGED <<config, call, built, result, completed, ncalls,
                 entries, _manifest_queue, stored>>
  /\ UNCHANGED otherThanDriver

\* solve, 1170-1210: the Result of the solve
Construct ==
  /\ pc = "construct"
  /\ LET r0 == [Result(call.specs, None) EXCEPT !.satisfiable = Len(models) >= 1]
     IN IF ~r0.satisfiable
        THEN /\ pc' = "idle"
             /\ outcome' = raised("SolverError")
             /\ UNCHANGED <<result, built>>
        ELSE IF raise_if_errors(run, min_model(models))
        THEN /\ pc' = "idle"
             /\ outcome' = raised("UnsatisfiableSpecError")
             /\ UNCHANGED <<result, built>>
        ELSE
          LET best == min_model(models)
              r1 == [r0 EXCEPT
                       !.answers = Append(@, PyTuple(<<best[1], 0,
                                                       build_answer(call.specs, best,
                                                                    run.nodes)>>)),
                       !.criteria = build_criteria_names(best[1]),
                       !.nmodels = Len(models)]
              r2 == _compute_specs_from_answer_set(r1, run.satisfied, run.build_satisfied)
          IN /\ built' = Append(built, best)
             /\ IF r2.unsolved_specs # << >> /\ call.concretize_everything
                THEN /\ pc' = "idle"
                     /\ outcome' = raised("OutputDoesNotSatisfyInputError")
                     /\ UNCHANGED result
                ELSE /\ pc' = "store"
                     /\ result' = <<r2>>
                     /\ UNCHANGED outcome
  /\ UNCHANGED <<config, call, run, wait, models, completed, ncalls,
                 entries, _manifest_queue, stored>>
  /\ UNCHANGED otherThanDriver

\* solve, 1212-1222: the Result goes to the cache and to the caller
Store ==
  /\ pc = "store"
  /\ pc' = "idle"
  /\ outcome' = returned(result[1], <<control_statistics(models)>>, FALSE)
  /\ IF config.conc_cache_enabled
     THEN LET s == store(entries, _manifest_queue["A"], call.problem_repr, result[1],
                         control_statistics(models))
          IN /\ entries' = s.entries
             /\ _manifest_queue' = [_manifest_queue EXCEPT !["A"] = s.queue]
             /\ stored' = IF s.ret = "written"
                          THEN Append(stored, _cache_path_from_problem(call.problem_repr).name)
                          ELSE stored
             /\ completed' = IF s.ret = "written"
                             THEN completed \cup {<<line_bag(call.asp_problem),
                                                    call.control_files,
                                                    call.asp_problem>>}
                             ELSE completed
     ELSE UNCHANGED <<entries, _manifest_queue, stored, completed>>
  /\ UNCHANGED <<config, call, run, wait, models, built, result, ncalls>>
  /\ UNCHANGED otherThanDriver

\* the caller reads specs, specs_by_input or unsolved_specs of the Result it
\* was given (445-468), as Solver.solve_in_rounds does (4352-4361); a Result
\* that still lacks them computes them
ReadResult ==
  /\ pc = "idle"
  /\ outcome.kind = "returned"
  /\ ~outcome.result[1].computed
  /\ outcome' = [outcome EXCEPT !.result =
                   <<_compute_specs_from_answer_set(outcome.result[1], run.satisfied,
                                                    run.build_satisfied)>>]
  /\ UNCHANGED <<config, pc, call, run, wait, models, built, result, completed, ncalls,
                 entries, _manifest_queue, stored>>
  /\ UNCHANGED otherThanDriver

DriverNext ==
  \/ \E specs \in InputLists, concretize_everything \in BOOLEAN, setup_only \in BOOLEAN,
        randomize \in BOOLEAN :
       \E asp_problem \in gen_value(emitted_lines(specs), randomize) :
         SolveCall(specs, concretize_everything, setup_only, randomize, asp_problem)
  \/ CacheCheck
  \/ Load
  \/ Ground
  \/ \E r \in Runs : Solve(r)
  \/ Construct
  \/ Store
  \/ ReadResult

DefaultConfig ==
  [conc_cache_enabled |-> TRUE, time_limit |-> 0, error_on_timeout |-> TRUE,
   enable_splicing |-> FALSE]


(***************************************************************************)
(* PART 5.  Result.minimize_core.                                          *)
(***************************************************************************)
\* the facts a core is made of
Facts == {"f1", "f2", "f3"}

\* the longest core
MaxCoreLen == 3

\* the items of a list, as a set
items(seq) == { seq[i] : i \in 1..Len(seq) }

\* control.solve(assumptions=...).unsatisfiable: a set of facts is
\* unsatisfiable when it includes one of the least unsatisfiable sets
unsatisfiable(least_sets, assumptions) ==
  \E m \in least_sets : m \subseteq items(assumptions)

\* list.remove(x): the list without the first x
RECURSIVE list_remove(_, _)
list_remove(seq, x) ==
  IF seq = << >> THEN << >>
  ELSE IF Head(seq) = x THEN Tail(seq)
  ELSE <<Head(seq)>> \o list_remove(Tail(seq), x)

\* the mutant of try_without: a fact taken out is never put back
try_without_never_put_back(least_sets, mc, fact) == list_remove(mc, fact)

\* minimize_core, 390-394: the body of the loop for one fact
try_without(least_sets, mc, fact) ==
  LET without == list_remove(mc, fact)
  IN IF ~unsatisfiable(least_sets, without) THEN Append(without, fact) ELSE without

\* the cores of the model: the lists of up to MaxCoreLen facts
Cores == UNION { [1..n -> Facts] : n \in 0..MaxCoreLen }

\* the families of least unsatisfiable sets
LeastSets == SUBSET (SUBSET Facts)

CoreInit ==
  /\ core \in Cores
  /\ unsat_sets \in LeastSets
  /\ unsatisfiable(unsat_sets, core)
  /\ min_core = << >>
  /\ core_pc = "idle"
  /\ core_i = 0
  /\ solves = 0

\* the state of part 5 in the specifications that do not use it
CoreIdle ==
  /\ core = << >>
  /\ unsat_sets = {{}}
  /\ min_core = << >>
  /\ core_pc = "idle"
  /\ core_i = 0
  /\ solves = 0

\* minimize_core, 383-389: the call, up to min_core = core[:]
MinimizeCore ==
  /\ core_pc = "idle"
  /\ core_pc' = "loop"
  /\ min_core' = core
  /\ core_i' = 1
  /\ UNCHANGED <<core, unsat_sets, solves>>
  /\ UNCHANGED otherThanCore

\* minimize_core, 390-394: one pass of the loop and its re-solve
TryWithoutFact ==
  /\ core_pc = "loop"
  /\ core_i <= Len(core)
  /\ min_core' = try_without(unsat_sets, min_core, core[core_i])
  /\ solves' = solves + 1
  /\ core_i' = core_i + 1
  /\ UNCHANGED <<core, unsat_sets, core_pc>>
  /\ UNCHANGED otherThanCore

\* minimize_core, 395: return min_core
ReturnMinCore ==
  /\ core_pc = "loop"
  /\ core_i > Len(core)
  /\ core_pc' = "returned"
  /\ UNCHANGED <<core, unsat_sets, min_core, core_i, solves>>
  /\ UNCHANGED otherThanCore

CoreNext ==
  \/ MinimizeCore
  \/ TryWithoutFact
  \/ ReturnMinCore


(***************************************************************************)
(* PART 6.  SpecBuilder.reorder_flags, for one node and one flag type.     *)
(*                                                                         *)
(* A flag is a record [flag, flag_group, source]: its text, the text of    *)
(* the group it was given in (the list of the flags of the group) and the  *)
(* source of the group.  Texts are numbered so that they can be sorted.    *)
(* A CompilerFlag is a str: two flags are equal when their texts are.      *)
(***************************************************************************)
\* the sources: a name, with the suffix of its kind of constraint if any
Compiler == [pkg |-> "compiler", suffix |-> ""]
Literal == [pkg |-> "literal", suffix |-> ""]

\* the flag groups a node can get flags from: the compiler, dependents x
\* and w, a requirement of the node y itself, and the command line
FlagGroups ==
  { [flag_group |-> <<3, 1>>, source |-> Compiler],
    [flag_group |-> <<1, 2>>, source |-> [pkg |-> "x", suffix |-> "_dep"]],
    [flag_group |-> <<2>>, source |-> [pkg |-> "w", suffix |-> "_dep"]],
    [flag_group |-> <<2>>, source |-> [pkg |-> "y", suffix |-> "_req"]],
    [flag_group |-> <<4, 3>>, source |-> [pkg |-> "v", suffix |-> "_dep"]],
    [flag_group |-> <<4, 1>>, source |-> Literal] }

\* the orders in which spec.traverse(order="post", direction="parents") can
\* give the node y and its dependents
TopoOrders == { <<"x", "w", "y">>, <<"w", "x", "y">>, <<"x", "y">> }

\* the largest number of flags of the node for the flag type
MaxFlags == 5

\* spack.compilers.flags.tokenize_flags: the flags of a group, in order
tokenize_flags(flag_group) == flag_group

\* the mutant of group_flags: the flags of the group from last to first
group_flags_reversed(grp) ==
  [i \in 1..Len(tokenize_flags(grp.flag_group)) |->
     [flag |-> tokenize_flags(grp.flag_group)[Len(tokenize_flags(grp.flag_group)) + 1 - i],
      flag_group |-> grp.flag_group, source |-> grp.source]]

\* the flags node_flag attaches for a group
group_flags(grp) ==
  [i \in 1..Len(tokenize_flags(grp.flag_group)) |->
     [flag |-> tokenize_flags(grp.flag_group)[i], flag_group |-> grp.flag_group,
      source |-> grp.source]]

\* flag in flag_list
flag_in(flag, flag_list) == \E i \in 1..Len(flag_list) : flag_list[i].flag = flag.flag

\* flag_list.remove(flag): without the first flag equal to it
RECURSIVE flag_remove(_, _)
flag_remove(flag_list, flag) ==
  IF flag_list = << >> THEN << >>
  ELSE IF Head(flag_list).flag = flag.flag THEN Tail(flag_list)
  ELSE <<Head(flag_list)>> \o flag_remove(Tail(flag_list), flag)

\* the mutant of extend_flag_list: an equal flag is not removed first
extend_flag_list_no_remove(flag_list, new_flags) == flag_list \o new_flags

\* extend_flag_list (266-277)
RECURSIVE extend_flag_list(_, _)
extend_flag_list(flag_list, new_flags) ==
  IF new_flags = << >> THEN flag_list
  ELSE extend_flag_list(
         Append(IF flag_in(Head(new_flags), flag_list)
                THEN flag_remove(flag_list, Head(new_flags)) ELSE flag_list,
                Head(new_flags)),
         Tail(new_flags))

\* [x for x in values if x.source == source]
RECURSIVE from_source(_, _)
from_source(values, source) ==
  IF values = << >> THEN << >>
  ELSE (IF Head(values).source = source THEN <<Head(values)>> ELSE << >>)
         \o from_source(Tail(values), source)

\* _reorder_flags (280-303): the flags of the group of flag_list, or the
\* error raised
_reorder_flags(flag_list) ==
  IF flag_list = << >> THEN [raised |-> None, flags |-> << >>]
  ELSE IF \/ Cardinality({ flag_list[i].flag_group : i \in 1..Len(flag_list) }) # 1
          \/ Cardinality({ flag_list[i].source : i \in 1..Len(flag_list) }) # 1
  THEN [raised |-> "InternalConcretizerError", flags |-> << >>]
  ELSE [raised |-> None,
        flags |-> group_flags([flag_group |-> flag_list[1].flag_group,
                               source |-> flag_list[1].source])]

\* reorder_flags, 3755-3764: the set flag_groups, whose members are equal
\* when their texts are: of the groups of one text, the one met first stays
RECURSIVE flag_groups_of(_, _)
flag_groups_of(values, found) ==
  IF values = << >> THEN found
  ELSE flag_groups_of(
         Tail(values),
         IF \E g \in found : g.flag_group = Head(values).flag_group THEN found
         ELSE found \cup {[flag_group |-> Head(values).flag_group,
                          source |-> Head(values).source]})

\* the mutant of strip_type_suffix: a requirement weighs as a conditional
\* spec
strip_type_suffix_req_as_cond(source) ==
  CASE source.suffix = "_dep" -> <<1, source.pkg>>
    [] source.suffix \in {"_cond", "_req"} -> <<0, source.pkg>>
    [] OTHER -> <<-1, source.pkg>>

\* ConstraintOrigin.strip_type_suffix (1334-1345)
strip_type_suffix(source) ==
  CASE source.suffix = "_cond" -> <<0, source.pkg>>
    [] source.suffix = "_dep" -> <<1, source.pkg>>
    [] source.suffix = "_req" -> <<2, source.pkg>>
    [] OTHER -> <<-1, source.pkg>>

\* list.index: the position of x, counted from 0
list_index(seq, x) == (CHOOSE i \in 1..Len(seq) : seq[i] = x /\ \A j \in 1..(i - 1) : seq[j] # x) - 1

\* sorted(flag_groups) (3770): the texts of the groups in ascending order
RECURSIVE lex_order_of(_)
lex_order_of(texts) ==
  IF texts = {} THEN << >>
  ELSE LET least == CHOOSE t \in texts : \A u \in texts : ~list_lt(u, t)
       IN <<least>> \o lex_order_of(texts \ {least})

\* reorder_flags._order_index (3772-3785)
_order_index(grp, topo, lex_order) ==
  LET stripped == strip_type_suffix(grp.source)
      type_index == stripped[1]
      pkg_source == stripped[2]
  IN IF pkg_source \in items(topo)
     THEN <<type_index, list_index(topo, pkg_source), list_index(lex_order, grp.flag_group)>>
     ELSE <<type_index, Len(topo) + list_index(lex_order, grp.flag_group), 0>>

\* sorted(flag_groups, key=_order_index) (3787)
RECURSIVE sorted_groups(_, _, _)
sorted_groups(groups, topo, lex_order) ==
  IF groups = {} THEN << >>
  ELSE LET first == CHOOSE g \in groups :
                      \A h \in groups :
                        ~list_lt(_order_index(h, topo, lex_order),
                                 _order_index(g, topo, lex_order))
       IN <<first>> \o sorted_groups(groups \ {first}, topo, lex_order)

prioritized_groups(values, topo) ==
  LET groups == flag_groups_of(values, {})
  IN sorted_groups(groups, topo, lex_order_of({ g.flag_group : g \in groups }))

\* the texts of a list of flags
flag_texts(flag_list) == [i \in 1..Len(flag_list) |-> flag_list[i].flag]

\* the lists of the flags of the groups gs, in every order
flag_lists(gs) ==
  LET all == UNION { items(group_flags(g)) : g \in gs }
      n == Cardinality(all)
  IN { q \in [1..n -> all] : \A f \in all : \E i \in 1..n : q[i] = f }

FlagsInit ==
  /\ \E gs \in SUBSET FlagGroups :
       /\ Cardinality(UNION { items(group_flags(g)) : g \in gs }) <= MaxFlags
       /\ compiler_flags \in flag_lists(gs)
  /\ flags_before = compiler_flags
  /\ topo_order \in TopoOrders
  /\ ordered_flags = << >>
  /\ flag_pc = "idle"
  /\ grp_i = 0

\* the state of part 6 in the specifications that do not use it
FlagsIdle ==
  /\ compiler_flags = << >>
  /\ flags_before = << >>
  /\ topo_order = << >>
  /\ ordered_flags = << >>
  /\ flag_pc = "idle"
  /\ grp_i = 0

\* reorder_flags, 3732-3749: the flags of the command line are put in the
\* order of their group, which may raise; the flags of the compiler come
\* first
PutCompilerFlags ==
  /\ flag_pc = "idle"
  /\ LET cli == _reorder_flags(from_source(compiler_flags, Literal))
     IN IF cli.raised # None
        THEN /\ flag_pc' = cli.raised
             /\ UNCHANGED <<ordered_flags, grp_i>>
        ELSE /\ ordered_flags' =
                  extend_flag_list(<< >>, from_source(compiler_flags, Compiler))
             /\ flag_pc' = "groups"
             /\ grp_i' = 1
  /\ UNCHANGED <<compiler_flags, flags_before, topo_order>>
  /\ UNCHANGED otherThanFlags

\* reorder_flags, 3789-3803: one pass of the loop over prioritized_groups
AddGroupFlags ==
  /\ flag_pc = "groups"
  /\ grp_i <= Len(prioritized_groups(compiler_flags, topo_order))
  /\ LET grp == prioritized_groups(compiler_flags, topo_order)[grp_i]
         grp_flags == tokenize_flags(grp.flag_group)
     IN ordered_flags' =
          IF grp_flags = flag_texts(from_source(compiler_flags, Compiler))
          THEN ordered_flags
          ELSE extend_flag_list(ordered_flags, group_flags(grp))
  /\ grp_i' = grp_i + 1
  /\ UNCHANGED <<compiler_flags, flags_before, topo_order, flag_pc>>
  /\ UNCHANGED otherThanFlags

\* reorder_flags, 3805-3813: the flags of the command line come last; the
\* flags must be those the node had; the node gets the list
PutCmdLineFlags ==
  /\ flag_pc = "groups"
  /\ grp_i > Len(prioritized_groups(compiler_flags, topo_order))
  /\ LET cli == _reorder_flags(from_source(compiler_flags, Literal))
         ordered == extend_flag_list(ordered_flags, cli.flags)
     IN IF items(flag_texts(compiler_flags)) # items(flag_texts(ordered))
        THEN /\ flag_pc' = "AssertionError"
             /\ ordered_flags' = ordered
             /\ UNCHANGED compiler_flags
        ELSE /\ flag_pc' = "done"
             /\ ordered_flags' = ordered
             /\ compiler_flags' = ordered
  /\ UNCHANGED <<flags_before, topo_order, grp_i>>
  /\ UNCHANGED otherThanFlags

FlagsNext ==
  \/ PutCompilerFlags
  \/ AddGroupFlags
  \/ PutCmdLineFlags


(***************************************************************************)
(* PART 7.  SpecBuilder.build_specs: the attribute tuples are sorted and   *)
(* applied one by one.  What build_specs does with the specs afterwards is *)
(* in parts 1 and 6.                                                       *)
(***************************************************************************)
NodeA == NodeArgument("0", "a")
NodeB == NodeArgument("0", "b")

\* the attribute tuples of an answer: a name and its arguments.  The node b
\* is reused by its hash, the node a is built; "frobnicate" names no method
\* of SpecBuilder
FunctionTuples ==
  { <<"hash", <<NodeB, "hash-b">>>>,
    <<"node", <<NodeA>>>>,
    <<"version", <<NodeA, "1.0">>>>,
    <<"version", <<NodeB, "2.0">>>>,
    <<"depends_on", <<NodeA, NodeB, "link">>>>,
    <<"external_spec_selected", <<NodeA, "0">>>>,
    <<"virtual_on_edge", <<NodeA, NodeB, "mpi">>>>,
    <<"root", <<NodeA>>>>,
    <<"frobnicate", <<NodeA, "x">>>> }

\* the largest number of tuples of an answer
MaxTuples == 5

\* the virtual packages of the repository
Virtuals == {"mpi"}

\* SpecBuilder.ignored_attributes (3562-3582), on the names used here
ignored_attributes(name) ==
  name \in {"compatible_libc", "dependency_holds", "external_conditions_hold",
            "package_hash", "root", "track_dependencies", "uses_virtual",
            "variant_default_value_from_cli", "virtual_node",
            "virtual_on_incoming_edges", "virtual_root",
            "node_flag_propagate", "node_version_satisfies", "variant_set"}

\* the methods of SpecBuilder that are actions
Actions ==
  {"hash", "node", "namespace", "node_platform", "node_os", "node_target",
   "variant_selected", "version", "node_flag", "external_spec_selected",
   "depends_on", "virtual_on_edge", "deprecated", "splice_at_hash"}

\* the mutant of action_of: getattr without a default
action_of_no_default(name) == name

\* getattr(self, name, None) (3851)
action_of(name) == IF name \in Actions THEN name ELSE None

\* build_specs.attr_key (3835-3844) and the key of the sort (3847)
attr_key(name) ==
  CASE name = "hash" -> -5
    [] name = "node" -> -4
    [] name = "external_spec_selected" -> 1
    [] name = "virtual_on_edge" -> 2
    [] OTHER -> 0

\* the tuples of seq whose key is k, in the order of seq
RECURSIVE with_key(_, _)
with_key(seq, k) ==
  IF seq = << >> THEN << >>
  ELSE (IF attr_key(Head(seq)[1]) = k THEN <<Head(seq)>> ELSE << >>)
         \o with_key(Tail(seq), k)

\* the mutant of sort_tuples: the tuples stay in the order of arrival
sort_tuples_not_sorted(seq) == seq

\* function_tuples.sort(key=...) (3847): a stable sort
sort_tuples(seq) ==
  with_key(seq, -5) \o with_key(seq, -4) \o with_key(seq, 0)
    \o with_key(seq, 1) \o with_key(seq, 2)

\* spack.spec.Spec(node.pkg): an abstract spec with nothing set
NewSpec(pkg) ==
  [name |-> pkg, concrete |-> FALSE, versions |-> None, external |-> FALSE,
   edges |-> {}, virtuals |-> {}]

\* self._hash_lookup[h]: the concrete spec with that hash
hash_lookup(pkg, h) ==
  [name |-> pkg, concrete |-> TRUE, versions |-> h, external |-> FALSE,
   edges |-> {}, virtuals |-> {}]

\* the state of the loop: the specs, the actions called, and the exception
\* raised if any
BuildState(specs, calls, raised_) == [specs |-> specs, applied |-> calls, raised |-> raised_]

\* action(*args) (3887), for the actions of the tuples used: 3609-3617,
\* 3650-3651, 3658-3666, 3690-3700
call_action(st, name, args) ==
  LET specs == st.specs
      called == Append(st.applied, <<name, args>>)
      node == args[1]
  IN CASE name = "hash" ->
            BuildState(IF node \in DOMAIN specs THEN specs
                       ELSE dict_set(specs, node, hash_lookup(node.pkg, args[2])),
                       called, None)
       [] name = "node" ->
            BuildState(IF node \in DOMAIN specs THEN specs
                       ELSE dict_set(specs, node, NewSpec(node.pkg)),
                       called, None)
       [] name = "version" ->
            IF node \notin DOMAIN specs THEN BuildState(specs, called, "KeyError")
            ELSE BuildState([specs EXCEPT ![node].versions = args[2]], called, None)
       [] name = "external_spec_selected" ->
            IF node \notin DOMAIN specs THEN BuildState(specs, called, "KeyError")
            ELSE BuildState([specs EXCEPT ![node].external = TRUE], called, None)
       [] name = "depends_on" ->
            IF node \notin DOMAIN specs \/ args[2] \notin DOMAIN specs
            THEN BuildState(specs, called, "KeyError")
            ELSE BuildState([specs EXCEPT ![node].edges = @ \cup {args[2]}], called, None)
       [] name = "virtual_on_edge" ->
            IF node \notin DOMAIN specs \/ args[2] \notin DOMAIN specs
            THEN BuildState(specs, called, "KeyError")
            ELSE IF args[2] \notin specs[node].edges
            THEN BuildState(specs, called, "AssertionError")
            ELSE BuildState([specs EXCEPT ![node].virtuals = @ \cup {<<args[2], args[3]>>}],
                            called, None)
       [] OTHER -> BuildState(specs, called, "AttributeError")

\* the mutant of apply_tuple: the actions are called on concrete specs too
apply_tuple_on_concrete_too(st, tuple) ==
  IF ignored_attributes(tuple[1]) \/ action_of(tuple[1]) = None THEN st
  ELSE IF tuple[1] # "error" /\ tuple[2][1].pkg \in Virtuals THEN st
  ELSE call_action(st, tuple[1], tuple[2])

\* one pass of the loop of build_specs (3849-3887)
apply_tuple(st, tuple) ==
  LET name == tuple[1]
      args == tuple[2]
      node == args[1]
  IN IF ignored_attributes(name) THEN st
     ELSE IF action_of(name) = None THEN st
     ELSE IF name # "error" /\ node.pkg \in Virtuals THEN st
     ELSE IF /\ name # "error"
             /\ node \in DOMAIN st.specs
             /\ st.specs[node].concrete
             /\ name \notin {"node_flag_source", "splice_at_hash"}
     THEN st
     ELSE call_action(st, name, args)

\* the loop of build_specs over tuples, until an exception is raised
RECURSIVE apply_tuples(_, _)
apply_tuples(st, tuples) ==
  IF tuples = << >> \/ st.raised # None THEN st
  ELSE apply_tuples(apply_tuple(st, Head(tuples)), Tail(tuples))

\* the lists of at most n different tuples
RECURSIVE tuple_lists(_)
tuple_lists(n) ==
  IF n = 0 THEN { << >> }
  ELSE tuple_lists(n - 1) \cup
       { Append(q, t) : q \in { r \in tuple_lists(n - 1) : Len(r) = n - 1 },
                        t \in FunctionTuples }

no_tuple_twice(seq) == \A i, j \in 1..Len(seq) : seq[i] = seq[j] => i = j

BuildInit ==
  /\ arrived \in { q \in tuple_lists(MaxTuples) : no_tuple_twice(q) }
  /\ function_tuples = arrived
  /\ specs_by_node = << >>
  /\ applied = << >>
  /\ build_pc = "idle"
  /\ tuple_i = 0

\* the state of part 7 in the specifications that do not use it
BuildIdle ==
  /\ arrived = << >>
  /\ function_tuples = << >>
  /\ specs_by_node = << >>
  /\ applied = << >>
  /\ build_pc = "idle"
  /\ tuple_i = 0

\* build_specs, 3835-3848: the tuples are sorted, _specs is emptied
SortTuples ==
  /\ build_pc = "idle"
  /\ function_tuples' = sort_tuples(function_tuples)
  /\ specs_by_node' = << >>
  /\ build_pc' = "loop"
  /\ tuple_i' = 1
  /\ UNCHANGED <<arrived, applied>>
  /\ UNCHANGED otherThanBuild

\* build_specs, 3849-3887: one pass of the loop
ApplyTuple ==
  /\ build_pc = "loop"
  /\ tuple_i <= Len(function_tuples)
  /\ LET st == apply_tuple(BuildState(specs_by_node, applied, None),
                           function_tuples[tuple_i])
     IN /\ specs_by_node' = st.specs
        /\ applied' = st.applied
        /\ build_pc' = IF st.raised # None THEN st.raised ELSE "loop"
  /\ tuple_i' = tuple_i + 1
  /\ UNCHANGED <<arrived, function_tuples>>
  /\ UNCHANGED otherThanBuild

\* build_specs, 3889 and on: the loop is over
EndOfTuples ==
  /\ build_pc = "loop"
  /\ tuple_i > Len(function_tuples)
  /\ build_pc' = "done"
  /\ UNCHANGED <<arrived, function_tuples, specs_by_node, applied, tuple_i>>
  /\ UNCHANGED otherThanBuild

BuildNext ==
  \/ SortTuples
  \/ ApplyTuple
  \/ EndOfTuples


(***************************************************************************)
(* PART 8.  SpackSolverSetup.setup: the versions of one package that are   *)
(* declared to the solver.  Versions are numbered in ascending order; none *)
(* is a git version.  A constraint on versions is the set of the versions  *)
(* that satisfy it.                                                        *)
(***************************************************************************)
\* pkg_cls.versions of the package: version 3 may be marked deprecated,
\* version 1 has no checksum
package_py(deprecated) ==
  { [version |-> 3, deprecated |-> deprecated, checksum |-> TRUE],
    [version |-> 2, deprecated |-> FALSE, checksum |-> TRUE],
    [version |-> 1, deprecated |-> FALSE, checksum |-> FALSE] }

\* a version no package.py knows
UnknownVersion == 4

\* what setup reads: the flags, package.py, the versions of the reusable
\* installed specs, of the externals and the version preferences of
\* packages.yaml, the concrete versions of the specs of the command line
\* and of the develop specs (none or one), the versions of the requirement
PackagesInputs ==
  [ allow_deprecated : BOOLEAN,
    require_checksum : BOOLEAN,
    package_py : { package_py(d) : d \in BOOLEAN },
    reuse : { {}, {3}, {2} },
    externals : { << >>, <<3>>, <<2, 3>>, <<UnknownVersion>> },
    version : { << >>, <<{3}>>, <<{2, 3}, {3}>>, <<{}>> },
    specs : { << >>, <<3>>, <<UnknownVersion>> },
    dev_specs : { << >>, <<3>> },
    require : { << >>, <<{3}>>, <<{UnknownVersion}>>, <<{2, 3}>>, <<{}>> } ]

DeclaredVersion(version, idx, origin) == [version |-> version, idx |-> idx, origin |-> origin]

\* the versions of a set from the highest to the lowest
RECURSIVE sorted_reverse(_)
sorted_reverse(versions) ==
  IF versions = {} THEN << >>
  ELSE LET top == CHOOSE v \in versions : \A w \in versions : w <= v
       IN <<top>> \o sorted_reverse(versions \ {top})

\* spack.llnl.util.lang.dedupe: without the repetitions
RECURSIVE dedupe(_)
dedupe(seq) ==
  IF seq = << >> THEN << >>
  ELSE LET before == dedupe(SubSeq(seq, 1, Len(seq) - 1))
       IN IF seq[Len(seq)] \in items(before) THEN before
          ELSE Append(before, seq[Len(seq)])

\* the record of the three dictionaries and of the exception raised
VersionState(declared, possible, deprecated, raised_) ==
  [declared |-> declared, possible |-> possible, deprecated |-> deprecated,
   raised |-> raised_]

\* concrete_specs (2999-3015): the version of every reusable spec is
\* possible and declared as installed
concrete_specs(vs, reuse) ==
  [vs EXCEPT !.possible = @ \cup reuse,
             !.declared = @ \o [i \in 1..Cardinality(reuse) |->
                                  DeclaredVersion(sorted_reverse(reuse)[i], 0, "INSTALLED")]]

\* external_packages (2237-2298): the version of every external is possible
\* and declared as external, the highest first
external_packages(vs, externals) ==
  LET external_versions == sorted_reverse(items(externals))
  IN [vs EXCEPT !.possible = @ \cup items(externals),
                !.declared = @ \o [i \in 1..Len(external_versions) |->
                                     DeclaredVersion(external_versions[i], i - 1, "EXTERNAL")]]

\* sorted(pkg_cls.versions.items(), ...) and the checksum filter (2647-2654)
package_py_versions(pkg, require_checksum) ==
  LET kept == { x \in pkg : require_checksum => x.checksum }
      order == sorted_reverse({ x.version : x \in kept })
  IN [i \in 1..Len(order) |-> CHOOSE x \in kept : x.version = order[i]]

\* the mutant of declare_package_py: deprecated versions are declared too
RECURSIVE declare_package_py_deprecated_too(_, _, _, _)
declare_package_py_deprecated_too(vs, versions, idx, allow_deprecated) ==
  IF idx >= Len(versions) THEN vs
  ELSE LET x == versions[idx + 1]
           vs1 == IF x.deprecated THEN [vs EXCEPT !.deprecated = @ \cup {x.version}] ELSE vs
       IN declare_package_py_deprecated_too(
            [vs1 EXCEPT !.possible = @ \cup {x.version},
                        !.declared = Append(@, DeclaredVersion(x.version, idx, "PACKAGE_PY"))],
            versions, idx + 1, allow_deprecated)

\* define_package_versions_and_validate_preferences, 2656-2665
RECURSIVE declare_package_py(_, _, _, _)
declare_package_py(vs, versions, idx, allow_deprecated) ==
  IF idx >= Len(versions) THEN vs
  ELSE LET x == versions[idx + 1]
           vs1 == IF x.deprecated THEN [vs EXCEPT !.deprecated = @ \cup {x.version}] ELSE vs
       IN declare_package_py(
            IF x.deprecated /\ ~allow_deprecated THEN vs1
            ELSE [vs1 EXCEPT !.possible = @ \cup {x.version},
                             !.declared = Append(@, DeclaredVersion(x.version, idx, "PACKAGE_PY"))],
            versions, idx + 1, allow_deprecated)

\* define_package_versions_and_validate_preferences, 2673-2688: the
\* versions the preferences stand for, or the error raised
RECURSIVE version_defs(_, _)
version_defs(possible, preferences) ==
  IF preferences = << >> THEN [raised |-> None, defs |-> << >>]
  ELSE LET matches == sorted_reverse(possible \cap Head(preferences))
           rest == version_defs(possible, Tail(preferences))
       IN IF matches = << >> THEN [raised |-> "ConfigError", defs |-> << >>]
          ELSE [rest EXCEPT !.defs = matches \o @]

\* define_package_versions_and_validate_preferences (2636-2694)
define_package_versions_and_validate_preferences(vs, pkg, preferences, require_checksum, allow_deprecated) ==
  LET vs1 == declare_package_py(vs, package_py_versions(pkg, require_checksum), 0,
                                allow_deprecated)
      found == version_defs(vs1.possible, preferences)
      defs == dedupe(found.defs)
  IN IF found.raised # None THEN [vs1 EXCEPT !.raised = found.raised]
     ELSE [vs1 EXCEPT !.possible = @ \cup items(defs),
                      !.declared = @ \o [i \in 1..Len(defs) |->
                                           DeclaredVersion(defs[i], i - 1, "PACKAGES_YAML")]]

\* _is_checksummed_git_version (878-879): no version here is a git version
_is_checksummed_git_version(v) == FALSE

\* define_ad_hoc_versions_from_specs (2696-2719), for no spec or one
define_ad_hoc_versions_from_specs(vs, specs, origin, allow_deprecated, require_checksum) ==
  IF specs = << >> \/ specs[1] \in vs.possible THEN vs
  ELSE IF require_checksum /\ ~_is_checksummed_git_version(specs[1])
  THEN [vs EXCEPT !.raised = "UnsatisfiableSpecError"]
  ELSE IF ~allow_deprecated /\ specs[1] \in vs.deprecated THEN vs
  ELSE [vs EXCEPT !.declared = Append(@, DeclaredVersion(specs[1], 0, origin)),
                  !.possible = @ \cup {specs[1]}]

\* validate_and_define_versions_from_requirements (3365-3409), for the
\* requirement of the package: the versions of a concrete one are a
\* singleton
validate_and_define_versions_from_requirements(vs, require, allow_deprecated, require_checksum) ==
  IF require = << >> THEN vs
  ELSE LET versions == require[1]
       IN IF Cardinality(versions) # 1
          THEN IF vs.possible \cap versions = {}
               THEN [vs EXCEPT !.raised = "ConfigError"]
               ELSE vs
          ELSE LET v == CHOOSE x \in versions : TRUE
               IN IF v \in vs.possible THEN vs
                  ELSE IF ~allow_deprecated /\ v \in vs.deprecated THEN vs
                  ELSE IF ~require_checksum \/ _is_checksummed_git_version(v)
                  THEN [vs EXCEPT !.declared = Append(@, DeclaredVersion(v, 0, "PACKAGE_REQUIREMENT")),
                                  !.possible = @ \cup {v}]
                  ELSE vs

VersionsInit ==
  /\ packages \in PackagesInputs
  /\ declared_versions = << >>
  /\ possible_versions = {}
  /\ deprecated_versions = {}
  /\ setup_pc = "idle"

\* the state of part 8 in the specifications that do not use it
VersionsIdle ==
  /\ packages = None
  /\ declared_versions = << >>
  /\ possible_versions = {}
  /\ deprecated_versions = {}
  /\ setup_pc = "idle"

\* one step of setup: the dictionaries become those of vs, and setup goes
\* on to next unless an exception was raised
setup_step(vs, next) ==
  /\ declared_versions' = vs.declared
  /\ possible_versions' = vs.possible
  /\ deprecated_versions' = vs.deprecated
  /\ setup_pc' = IF vs.raised # None THEN vs.raised ELSE next
  /\ UNCHANGED packages
  /\ UNCHANGED otherThanVersions

current_versions ==
  VersionState(declared_versions, possible_versions, deprecated_versions, None)

\* setup, 3107-3112
ConcreteSpecs ==
  /\ setup_pc = "idle"
  /\ setup_step(concrete_specs(current_versions, packages.reuse), "externals")

\* setup, 3134
ExternalPackages ==
  /\ setup_pc = "externals"
  /\ setup_step(external_packages(current_versions, packages.externals), "package_versions")

\* setup, 3137-3141
DefinePackageVersions ==
  /\ setup_pc = "package_versions"
  /\ setup_step(define_package_versions_and_validate_preferences(
                  current_versions, packages.package_py, packages.version,
                  packages.require_checksum, packages.allow_deprecated),
                "ad_hoc")

\* setup, 3142-3150: the specs of the command line, then the develop specs
DefineAdHocVersions ==
  /\ setup_pc = "ad_hoc"
  /\ LET vs == define_ad_hoc_versions_from_specs(
                 current_versions, packages.specs, "SPEC",
                 packages.allow_deprecated, packages.require_checksum)
     IN setup_step(IF vs.raised # None THEN vs
                   ELSE define_ad_hoc_versions_from_specs(
                          vs, packages.dev_specs, "DEV_SPEC",
                          packages.allow_deprecated, packages.require_checksum),
                   "requirements")

\* setup, 3151-3153
DefineVersionsFromRequirements ==
  /\ setup_pc = "requirements"
  /\ setup_step(validate_and_define_versions_from_requirements(
                  current_versions, packages.require,
                  packages.allow_deprecated, packages.require_checksum),
                "done")

VersionsNext ==
  \/ ConcreteSpecs
  \/ ExternalPackages
  \/ DefinePackageVersions
  \/ DefineAdHocVersions
  \/ DefineVersionsFromRequirements

(***************************************************************************)
(* PART 9.  ErrorHandler.get_cause_tree.  A cause is a pair (condition id, *)
(* condition set id); the calls of _get_cause_tree are the frames of a     *)
(* stack.                                                                  *)
(***************************************************************************)
Causes == { <<"c1", "s">>, <<"c2", "s">>, <<"c3", "s">> }

\* dict(extract_args(self.full_model, "condition_reason")) (947)
conditions == [c \in {"c1", "c2", "c3"} |-> <<"reason of", c>>]

\* every pair (effect, cause), in the order of the model
CausePairs ==
  << <<<<"c1", "s">>, <<"c1", "s">>>>, <<<<"c1", "s">>, <<"c2", "s">>>>,
     <<<<"c1", "s">>, <<"c3", "s">>>>, <<<<"c2", "s">>, <<"c1", "s">>>>,
     <<<<"c2", "s">>, <<"c2", "s">>>>, <<<<"c2", "s">>, <<"c3", "s">>>>,
     <<<<"c3", "s">>, <<"c1", "s">>>>, <<<<"c3", "s">>, <<"c2", "s">>>>,
     <<<<"c3", "s">>, <<"c3", "s">>>> >>

\* the largest number of condition_cause facts of a model
MaxPairs == 4

\* the depth at which the interpreter stops a recursion, scaled down: more
\* than there are causes
RecursionLimit == 4

\* the pairs of seq that are in chosen, in the order of seq
RECURSIVE pairs_in(_, _)
pairs_in(seq, chosen) ==
  IF seq = << >> THEN << >>
  ELSE (IF Head(seq) \in chosen THEN <<Head(seq)>> ELSE << >>) \o pairs_in(Tail(seq), chosen)

\* the mutant of parents_of: the causes seen already are taken again
RECURSIVE parents_of_seen_too(_, _, _)
parents_of_seen_too(pairs, cause, seen_) ==
  IF pairs = << >> THEN << >>
  ELSE (IF Head(pairs)[1] = cause THEN <<Head(pairs)[2]>> ELSE << >>)
         \o parents_of_seen_too(Tail(pairs), cause, seen_)

\* [c for e, c in condition_causes if e == cause and c not in seen] (926)
RECURSIVE parents_of(_, _, _)
parents_of(pairs, cause, seen_) ==
  IF pairs = << >> THEN << >>
  ELSE (IF Head(pairs)[1] = cause /\ Head(pairs)[2] \notin seen_
        THEN <<Head(pairs)[2]>> ELSE << >>)
         \o parents_of(Tail(pairs), cause, seen_)

\* the frame of a call of _get_cause_tree (925-927): the parents found on
\* entry, and the one the comprehension is at
Frame(pairs, cause, seen_) ==
  [cause |-> cause, parents |-> parents_of(pairs, cause, seen_ \cup {cause}), at |-> 1]

\* indent + local (927, 929): the depth of the indent and the reason
cause_line(depth, cause) == [indent |-> depth, text |-> conditions[cause[1]]]

TreeInit ==
  /\ \E chosen \in SUBSET { CausePairs[i] : i \in 1..Len(CausePairs) } :
       /\ Cardinality(chosen) <= MaxPairs
       /\ condition_causes = pairs_in(CausePairs, chosen)
  /\ root_cause \in Causes
  /\ seen = {}
  /\ stack = << >>
  /\ tree_lines = << >>
  /\ tree_pc = "idle"

\* the state of part 9 in the specifications that do not use it
TreeIdle ==
  /\ condition_causes = << >>
  /\ root_cause = << >>
  /\ seen = {}
  /\ stack = << >>
  /\ tree_lines = << >>
  /\ tree_pc = "idle"

\* get_cause_tree (938-952): the first call, with an empty seen
GetCauseTree ==
  /\ tree_pc = "idle"
  /\ seen' = {root_cause}
  /\ stack' = <<Frame(condition_causes, root_cause, {})>>
  /\ tree_lines' = <<cause_line(0, root_cause)>>
  /\ tree_pc' = "running"
  /\ UNCHANGED <<condition_causes, root_cause>>
  /\ UNCHANGED otherThanTree

\* _get_cause_tree, 929-935: the call for the next parent
CallForParent ==
  /\ tree_pc = "running"
  /\ stack # << >>
  /\ stack[Len(stack)].at <= Len(stack[Len(stack)].parents)
  /\ LET top == stack[Len(stack)]
         parent == top.parents[top.at]
     IN IF Len(stack) >= RecursionLimit
        THEN /\ tree_pc' = "RecursionError"
             /\ UNCHANGED <<seen, stack, tree_lines>>
        ELSE /\ seen' = seen \cup {parent}
             /\ stack' = Append([stack EXCEPT ![Len(stack)].at = @ + 1],
                                Frame(condition_causes, parent, seen))
             /\ tree_lines' = Append(tree_lines, cause_line(Len(stack), parent))
             /\ UNCHANGED tree_pc
  /\ UNCHANGED <<condition_causes, root_cause>>
  /\ UNCHANGED otherThanTree

\* _get_cause_tree, 929-935: no parent is left, the call returns
ReturnLines ==
  /\ tree_pc = "running"
  /\ stack # << >>
  /\ stack[Len(stack)].at > Len(stack[Len(stack)].parents)
  /\ stack' = SubSeq(stack, 1, Len(stack) - 1)
  /\ tree_pc' = IF Len(stack) = 1 THEN "done" ELSE "running"
  /\ UNCHANGED <<condition_causes, root_cause, seen, tree_lines>>
  /\ UNCHANGED otherThanTree

TreeNext ==
  \/ GetCauseTree
  \/ CallForParent
  \/ ReturnLines


(***************************************************************************)
(* PART 10.  SpackSolverSetup.condition, the trigger and effect caches and *)
(* their flush.  A spec object has a name, or none, and the text of its    *)
(* constraints; a cache is the list of the names it has a dictionary for   *)
(* and the list of its entries, both in the order of insertion.            *)
(***************************************************************************)
\* the spec objects of the callers: "o2" is anonymous; the clauses of "o3"
\* cannot be generated for a head, those of "o4" for a body
SpecObjects == {"o1", "o2", "o3", "o4"}

InitialNames == [o \in SpecObjects |-> CASE o = "o1" -> "a" [] o = "o2" -> None [] OTHER -> "b"]

constraints_text == [o \in SpecObjects |->
                       CASE o = "o1" -> "@1" [] o = "o2" -> "+x" [] o = "o3" -> "@2" [] OTHER -> "~y"]

\* the largest numbers of calls of condition and of flushes in a run
MaxConditions == 2

MaxFlushes == 2

\* what the callers pass to condition: the required spec, the imposed spec
\* if any, the two names, and the context: none, or one whose transforms are
\* functions the caller made once.  A transform is the function, or none,
\* and for the closure remove_facts returns (227-235) the call that made it.
ConditionCalls ==
  [ required_spec : {"o1", "o2", "o4"},
    imposed_spec : { << >>, <<"o1">>, <<"o2">>, <<"o3">> },
    names : { [required_name |-> "a", imposed_name |-> "c"],
              [required_name |-> None, imposed_name |-> None] },
    context : { None, "made by the caller" } ]

\* str(named_cond): the name and the constraints
str_of(names, obj) == <<names[obj], constraints_text[obj]>>

\* spec_clauses(named_cond, body=body, context=context): whether it raises
spec_clauses_raises(obj, body) == (obj = "o3" /\ ~body) \/ (obj = "o4" /\ body)

\* the clauses of a spec after the transform of the context (1774-1776)
requirements_of(names, obj, body, transform) ==
  <<str_of(names, obj), IF body THEN "body" ELSE "head", transform>>

EmptyCache == [names |-> << >>, entries |-> << >>]

\* cache[named_cond.name] on a defaultdict (1765): the name gets a
\* dictionary if it has none
pkg_cache(cache, name) ==
  IF name \in items(cache.names) THEN cache
  ELSE [cache EXCEPT !.names = Append(@, name)]

\* pkg_cache.get(named_cond_key) (1767-1768)
cached(cache, name, key) ==
  { i \in 1..Len(cache.entries) : cache.entries[i].name = name /\ cache.entries[i].key = key }

\* the state of the setup: the counter, the two caches, the names of the
\* spec objects, the facts emitted, and the registrations so far
\* (half, name, key, id, number of flushes before it)
SetupState(counter, tcache, ecache, names, facts, regs) ==
  [counter |-> counter, trigger |-> tcache, effect |-> ecache, names |-> names,
   emitted |-> facts, registered |-> regs]

\* the mutant of _get_condition_id: the cache is never looked up
_get_condition_id_no_lookup(st, half, obj, transform, body, epoch) ==
  LET name == st.names[obj]
      key == <<str_of(st.names, obj), transform>>
      cache == pkg_cache(st[half], name)
      entry == [name |-> name, key |-> key, id |-> st.counter,
                requirements |-> requirements_of(st.names, obj, body, transform)]
  IN IF spec_clauses_raises(obj, body)
     THEN [st |-> [st EXCEPT ![half] = cache, !.counter = @ + 1], id |-> 0, raised |-> half]
     ELSE [st |-> [st EXCEPT ![half] = [cache EXCEPT !.entries = Append(@, entry)],
                             !.counter = @ + 1,
                             !.registered = @ \cup {[half |-> half, name |-> name, key |-> key,
                                                     id |-> st.counter, epoch |-> epoch]}],
           id |-> st.counter, raised |-> None]

\* _get_condition_id (1749-1779), on the cache half, "trigger" or "effect"
_get_condition_id(st, half, obj, transform, body, epoch) ==
  LET name == st.names[obj]
      key == <<str_of(st.names, obj), transform>>
      cache == pkg_cache(st[half], name)
      found == cached(cache, name, key)
      entry == [name |-> name, key |-> key, id |-> st.counter,
                requirements |-> requirements_of(st.names, obj, body, transform)]
  IN IF found # {}
     THEN LET id == cache.entries[CHOOSE i \in found : TRUE].id
          IN [st |-> [st EXCEPT ![half] = cache,
                                !.registered = @ \cup {[half |-> half, name |-> name, key |-> key,
                                                        id |-> id, epoch |-> epoch]}],
              id |-> id, raised |-> None]
     ELSE IF spec_clauses_raises(obj, body)
     THEN [st |-> [st EXCEPT ![half] = cache, !.counter = @ + 1], id |-> 0, raised |-> half]
     ELSE [st |-> [st EXCEPT ![half] = [cache EXCEPT !.entries = Append(@, entry)],
                             !.counter = @ + 1,
                             !.registered = @ \cup {[half |-> half, name |-> name, key |-> key,
                                                     id |-> st.counter, epoch |-> epoch]}],
           id |-> st.counter, raised |-> None]

\* the mutant of named_spec_exit: the name is left as set
named_spec_exit_no_restore(names, obj, name, old_name) == names

\* named_spec (125-139), on leaving the block: the old name is put back
named_spec_exit(names, obj, name, old_name) ==
  IF obj = << >> \/ name = None THEN names
  ELSE [names EXCEPT ![obj[1]] = old_name]

\* named_spec, on entering the block: the name is set
named_spec_enter(names, obj, name) ==
  IF obj = << >> \/ name = None THEN names
  ELSE [names EXCEPT ![obj[1]] = name]

\* the name named_spec keeps to put back
old_name_of(names, obj) == IF obj = << >> THEN None ELSE names[obj[1]]

\* the end of the with block of _condition_clauses: the second context
\* manager puts its old name back, then the first
leave_named_specs(st, required, imposed, required_name, imposed_name, old1, old2) ==
  [st EXCEPT !.names =
     named_spec_exit(named_spec_exit(@, imposed, imposed_name, old2),
                     <<required>>, required_name, old1)]

\* _condition_clauses (1781-1831): the state after it, the clauses, and
\* the exception raised if any
_condition_clauses(st, c, epoch) ==
  LET required == c.required_spec
      imposed == c.imposed_spec
      required_name == IF st.names[required] # None THEN st.names[required]
                       ELSE c.names.required_name
      imposed_name == IF imposed = << >> THEN None
                      ELSE IF st.names[imposed[1]] # None THEN st.names[imposed[1]]
                      ELSE c.names.imposed_name
      transform_required == IF c.context = None THEN <<"None", 0>>
                            ELSE <<"transform_required", 0>>
      transform_imposed == IF c.context = None THEN <<"remove_facts", st.counter>>
                           ELSE <<"transform_imposed", 0>>
  IN IF required_name = None \/ (imposed # << >> /\ imposed_name = None)
     THEN [st |-> st, clauses |-> << >>, raised |-> "ValueError"]
     ELSE
       LET old1 == st.names[required]
           names1 == named_spec_enter(st.names, <<required>>, required_name)
           old2 == old_name_of(names1, imposed)
           names2 == named_spec_enter(names1, imposed, imposed_name)
           condition_id == st.counter
           st2 == [st EXCEPT !.names = names2, !.counter = @ + 1]
           t == _get_condition_id(st2, "trigger", required, transform_required, TRUE, epoch)
           clauses3 == << <<"condition", t.st.names[required], condition_id>>,
                          <<"condition_reason", condition_id>>,
                          <<"condition_trigger", t.st.names[required], condition_id, t.id>> >>
           e == _get_condition_id(t.st, "effect", imposed[1], transform_imposed, FALSE, epoch)
       IN IF t.raised # None
          THEN [st |-> leave_named_specs(t.st, required, imposed, required_name, imposed_name, old1, old2),
                clauses |-> << >>, raised |-> t.raised]
          ELSE IF imposed = << >>
          THEN [st |-> leave_named_specs(t.st, required, imposed, required_name, imposed_name, old1, old2),
                clauses |-> clauses3, raised |-> None]
          ELSE IF e.raised # None
          THEN [st |-> leave_named_specs(e.st, required, imposed, required_name, imposed_name, old1, old2),
                clauses |-> << >>, raised |-> e.raised]
          ELSE [st |-> leave_named_specs(e.st, required, imposed, required_name, imposed_name, old1, old2),
                clauses |-> Append(clauses3,
                                   <<"condition_effect", e.st.names[required], condition_id, e.id>>),
                raised |-> None]

\* the mutant of condition: the facts of the trigger are emitted before the
\* effect is generated
condition_emits_early(st, c, epoch) ==
  LET r == _condition_clauses(st, c, epoch)
  IN [st |-> [r.st EXCEPT !.emitted =
                IF r.raised = "effect"
                THEN Append(@, <<"condition_reason", st.counter>>) ELSE @ \o r.clauses],
      raised |-> r.raised]

\* condition (1833-1868): the clauses are emitted when none of them raised
condition(st, c, epoch) ==
  LET r == _condition_clauses(st, c, epoch)
  IN [st |-> [r.st EXCEPT !.emitted = @ \o r.clauses], raised |-> r.raised]

\* the facts of the entries of a cache for the names in order (1607-1614,
\* 1623-1630)
RECURSIVE rule_facts(_, _, _)
rule_facts(half, names, cached_) ==
  IF names = << >> THEN << >>
  ELSE LET mine == { i \in 1..Len(cached_) : cached_[i].name = Head(names) }
           RECURSIVE facts_from(_)
           facts_from(i) ==
             IF i > Len(cached_) THEN << >>
             ELSE (IF i \in mine
                   THEN << <<half \o "_id", cached_[i].name, cached_[i].id>>,
                           <<half \o "_msg", cached_[i].name, cached_[i].key[1]>>,
                           <<IF half = "trigger" THEN "condition_requirement"
                             ELSE "imposed_constraint", cached_[i].id, cached_[i].requirements>> >>
                   ELSE << >>) \o facts_from(i + 1)
       IN facts_from(1) \o rule_facts(half, Tail(names), cached_)

\* sorted(self._effect_cache) (1623)
sorted_names(names) ==
  LET order == <<"a", "b", "c">>
  IN pairs_in(order, items(names))

\* trigger_rules (1601-1615)
trigger_rules(st) ==
  IF st.trigger.names = << >> THEN st
  ELSE [st EXCEPT !.emitted = @ \o <<<<"h2", "Trigger conditions">>>>
                                \o rule_facts("trigger", st.trigger.names, st.trigger.entries),
                  !.trigger = EmptyCache]

\* effect_rules (1617-1631)
effect_rules(st) ==
  IF st.effect.names = << >> THEN st
  ELSE [st EXCEPT !.emitted = @ \o <<<<"h2", "Imposed requirements">>>>
                                \o rule_facts("effect", sorted_names(st.effect.names),
                                              st.effect.entries),
                  !.effect = EmptyCache]

current_setup ==
  SetupState(_id_counter, _trigger_cache, _effect_cache, spec_names, emitted, registered)

CondInit ==
  /\ _id_counter = 0
  /\ _trigger_cache = EmptyCache
  /\ _effect_cache = EmptyCache
  /\ spec_names = InitialNames
  /\ emitted = << >>
  /\ registered = {}
  /\ flushes = 0
  /\ nconds = 0
  /\ last_call = [op |-> "none", raised |-> None, before |-> << >>, call |-> << >>]

\* the state of part 10 in the specifications that do not use it
CondIdle == CondInit

becomes(st) ==
  /\ _id_counter' = st.counter
  /\ _trigger_cache' = st.trigger
  /\ _effect_cache' = st.effect
  /\ spec_names' = st.names
  /\ emitted' = st.emitted
  /\ registered' = st.registered

\* a call of condition whose caller handles the exception, as
\* external_packages (2277-2283) and emit_facts_from_requirement_rules
\* (2134-2167) do
Condition(c) ==
  /\ nconds < MaxConditions
  /\ LET r == condition(current_setup, c, flushes)
     IN /\ becomes(r.st)
        /\ last_call' = [op |-> "condition", raised |-> r.raised,
                         before |-> <<current_setup>>, call |-> <<c>>]
  /\ nconds' = nconds + 1
  /\ UNCHANGED flushes
  /\ UNCHANGED otherThanCond

\* self.trigger_rules() and self.effect_rules(), as at 1597-1599
FlushRules ==
  /\ flushes < MaxFlushes
  /\ becomes(effect_rules(trigger_rules(current_setup)))
  /\ flushes' = flushes + 1
  /\ last_call' = [op |-> "flush", raised |-> None, before |-> <<current_setup>>,
                   call |-> << >>]
  /\ UNCHANGED nconds
  /\ UNCHANGED otherThanCond

CondNext ==
  \/ \E c \in ConditionCalls : Condition(c)
  \/ FlushRules


(***************************************************************************)
(* PART 11.  The text of the splice rules and the cache key made of it.    *)
(* A text is a list of tokens; the token 0 is the newline.  A package has  *)
(* the splice_specs of its can_splice directives: for a condition on the   *)
(* package, the spec it can be spliced in for.                             *)
(***************************************************************************)
\* the texts of the program, in the place of their token number plus one
Tokens ==
  <<"\n", ",", ".", "abi_splice_conditions_hold(0,..)", "abi_splice_conditions_hold(1,..)",
    "attr(node)", "installed_hash", "attr(version_satisfies @2)",
    "attr(version_satisfies @4)", "hash_attr(version_satisfies @1)",
    "hash_attr(version_satisfies @3)", "hash_attr(variant_value x)", " :-",
    "% Splice rules">>

token(text) == (CHOOSE i \in 1..Len(Tokens) : Tokens[i] = text) - 1

\* the conditions of the package, as sorted(pkg.splice_specs.items()) has them
SpliceConditions == <<"@2", "@4">>

\* the specs to splice in: the version and whether the variant x is set
SpliceTargets ==
  { [version |-> "@1", x |-> TRUE], [version |-> "@3", x |-> TRUE],
    [version |-> "@1", x |-> FALSE] }

\* pkg.splice_specs: for each condition the spec to splice in, or none
SpliceSpecs ==
  [1..Len(SpliceConditions) -> { << >> } \cup { <<t>> : t \in SpliceTargets }]

\* the conditions that have a spec to splice in, in order
splice_items(splices) == pairs_in(<<1, 2>>, { c \in 1..Len(SpliceConditions) : splices[c] # << >> })

\* the body of the rule for a condition (2030-2039)
rule_body_components(cond, spec_to_splice) ==
  <<token("attr(node)"), token("installed_hash"),
    token("attr(version_satisfies " \o SpliceConditions[cond] \o ")"),
    token("hash_attr(version_satisfies " \o spec_to_splice.version \o ")")>>
  \o (IF spec_to_splice.x THEN <<token("hash_attr(variant_value x)")>> ELSE << >>)

\* ",\n  ".join(...) (2040)
RECURSIVE join_body(_)
join_body(components) ==
  IF Len(components) = 1 THEN components
  ELSE <<Head(components), token(","), token("\n")>> \o join_body(Tail(components))

\* rule = f"{rule_head} :-\n  {rule_body}." (2027-2041)
splice_rule(i, cond, spec_to_splice) ==
  <<token("abi_splice_conditions_hold(0,..)") + i, token(" :-"), token("\n")>>
  \o join_body(rule_body_components(cond, spec_to_splice)) \o <<token(".")>>

\* package_splice_rules (1985-2044): what it appends to the program
RECURSIVE splice_rules(_, _, _)
splice_rules(splices, conds, i) ==
  IF conds = << >> THEN << >>
  ELSE <<splice_rule(i, Head(conds), splices[Head(conds)][1])>>
       \o splice_rules(splices, Tail(conds), i + 1)

package_splice_rules(splices) ==
  << <<token("\n"), token("% Splice rules"), token("\n")>> >>
  \o splice_rules(splices, splice_items(splices), 0)
  \o (IF splice_items(splices) = << >> THEN << >> ELSE << <<token("\n")>> >>)

\* ProblemInstanceBuilder.value (3510-3513) without randomize: "".join
RECURSIVE builder_value(_)
builder_value(chunks) ==
  IF chunks = << >> THEN << >> ELSE Head(chunks) \o builder_value(Tail(chunks))

\* asp_problem.split("\n")
RECURSIVE split_newline(_, _)
split_newline(text, line) ==
  IF text = << >> THEN <<line>>
  ELSE IF Head(text) = token("\n") THEN <<line>> \o split_newline(Tail(text), << >>)
  ELSE split_newline(Tail(text), Append(line, Head(text)))

\* a line as a number, different for different lines: sorted compares
\* numbers where Python compares strings, and either order puts equal lines
\* and only them in the same places
RECURSIVE line_code(_)
line_code(line) ==
  IF line = << >> THEN 0 ELSE line[Len(line)] + (Len(Tokens) * line_code(SubSeq(line, 1, Len(line) - 1)))

\* problem_repr of solve (1101-1108) for the text of a program
key_text(text) ==
  LET split == split_newline(text, << >>)
  IN problem_repr([i \in 1..Len(split) |-> line_code(split[i])], control_files(TRUE, TRUE))

\* the rules of a program text: what is between a head and the period that
\* ends its body
rules_of(splices) ==
  { [head |-> i - 1, cond |-> splice_items(splices)[i], spec |-> splices[splice_items(splices)[i]][1]] :
      i \in 1..Len(splice_items(splices)) }

KeyInit ==
  /\ splice_specs \in [{"P", "Q"} -> SpliceSpecs]
  /\ asp_problems = [p \in {"P", "Q"} |-> << >>]
  /\ cache_keys = [p \in {"P", "Q"} |-> << >>]

\* the state of part 11 in the specifications that do not use it
KeyIdle ==
  /\ splice_specs = [p \in {"P", "Q"} |-> [c \in 1..Len(SpliceConditions) |-> << >>]]
  /\ asp_problems = [p \in {"P", "Q"} |-> << >>]
  /\ cache_keys = [p \in {"P", "Q"} |-> << >>]

\* setup of the program p: the splice rules of the package and gen.value()
PackageSpliceRules(p) ==
  /\ asp_problems[p] = << >>
  /\ asp_problems' = [asp_problems EXCEPT
                        ![p] = <<builder_value(package_splice_rules(splice_specs[p]))>>]
  /\ UNCHANGED <<splice_specs, cache_keys>>
  /\ UNCHANGED otherThanKey

\* solve, 1098-1108, for the program p: the text the cache key is made of
ProblemRepr(p) ==
  /\ asp_problems[p] # << >>
  /\ cache_keys[p] = << >>
  /\ cache_keys' = [cache_keys EXCEPT ![p] = <<key_text(asp_problems[p][1])>>]
  /\ UNCHANGED <<splice_specs, asp_problems>>
  /\ UNCHANGED otherThanKey

KeyNext ==
  \/ \E p \in {"P", "Q"} : PackageSpliceRules(p)
  \/ \E p \in {"P", "Q"} : ProblemRepr(p)


(***************************************************************************)
(* PART 12.  Solver.solve_in_rounds: rounds of PyclingoDriver.solve with   *)
(* concretize_everything off, each on the inputs the round before left     *)
(* unsolved, with the specs solved so far as reusable specs.               *)
(***************************************************************************)
\* the largest number of calls of solve_in_rounds in one behaviour
MaxRuns == 2

\* the number that stands for a reusable concrete spec: 1, 2, 4 or 8
reuse_number(spec) ==
  (IF spec.hash[2] = 1 THEN 1 ELSE 2) * (IF spec.name = "a" THEN 1 ELSE 4)

\* the fact lines setup emits for the reusable specs: copies of the line 9,
\* as many of them as the numbers of the specs add up to, so that two sets of
\* reusable specs give the same lines only if they are the same set
RECURSIVE reuse_lines(_)
reuse_lines(reuse) ==
  IF reuse = {} THEN << >>
  ELSE LET s == CHOOSE x \in reuse : TRUE
       IN [i \in 1..reuse_number(s) |-> 9] \o reuse_lines(reuse \ {s})

\* PyclingoDriver.solve (1069-1216) with concretize_everything off, as one
\* step: the Result or the exception, and the cache after it
driver_solve(cfg, ents, queue, specs, reuse, search) ==
  LET ctrl == control_files(FALSE, cfg.enable_splicing)
      repr == problem_repr(emitted_lines(specs) \o reuse_lines(reuse), ctrl)
      f == fetch(ents, repr)
      w == solve_wait(cfg.time_limit, cfg.error_on_timeout, search)
      ms == reported_models(search, w.reported)
      r0 == [Result(specs, None) EXCEPT !.satisfiable = Len(ms) >= 1]
      best == min_model(ms)
      r1 == [r0 EXCEPT
               !.answers = Append(@, PyTuple(<<best[1], 0,
                                               build_answer(specs, best, search.nodes)>>)),
               !.criteria = build_criteria_names(best[1]),
               !.nmodels = Len(ms)]
      r2 == _compute_specs_from_answer_set(r1, search.satisfied, search.build_satisfied)
      s == store(ents, queue, repr, r2, control_statistics(ms))
      unchanged == [entries |-> ents, queue |-> queue]
  IN IF cfg.conc_cache_enabled /\ f.raised # None
     THEN [outcome |-> raised(f.raised), cache |-> unchanged]
     ELSE IF cfg.conc_cache_enabled /\ f.hit
     THEN [outcome |-> returned(f.result[1], f.statistics, TRUE), cache |-> unchanged]
     ELSE IF w.raised
     THEN [outcome |-> raised("UnsatisfiableSpecError"), cache |-> unchanged]
     ELSE IF ~r0.satisfiable
     THEN [outcome |-> raised("SolverError"), cache |-> unchanged]
     ELSE IF raise_if_errors(search, best)
     THEN [outcome |-> raised("UnsatisfiableSpecError"), cache |-> unchanged]
     ELSE [outcome |-> returned(r2, <<control_statistics(ms)>>, FALSE),
           cache |-> IF cfg.conc_cache_enabled
                     THEN [entries |-> s.entries, queue |-> s.queue]
                     ELSE unchanged]

\* the mutant of next_input_specs: the inputs of the round are tried again
next_input_specs_all_again(res) == res.abstract_specs

\* input_specs = list(x for (x, y) in result.unsolved_specs) (4359)
next_input_specs(res) == [i \in 1..Len(res.unsolved_specs) |-> res.unsolved_specs[i][1]]

RoundsInit ==
  /\ rounds_pc = "idle"
  /\ initial_specs = << >>
  /\ input_specs = << >>
  /\ reusable_specs = {}
  /\ yielded = << >>
  /\ round_sizes = << >>
  /\ round_error = None
  /\ nruns = 0

\* the state of part 12 in the specifications that do not use it
RoundsIdle == RoundsInit

\* solve_in_rounds, 4332-4341: the call, up to the first round
SolveInRounds(specs) ==
  /\ rounds_pc \in {"idle", "done", "raised"}
  /\ nruns < MaxRuns
  /\ nruns' = nruns + 1
  /\ rounds_pc' = "round"
  /\ initial_specs' = specs
  /\ input_specs' = specs
  /\ reusable_specs' = {}
  /\ yielded' = << >>
  /\ round_sizes' = << >>
  /\ round_error' = None
  /\ UNCHANGED <<entries, manifest, _manifest_queue, recorded, stored, lastOp>>
  /\ UNCHANGED otherThanRounds

\* solve_in_rounds, 4342-4364: one round, in which the solver does search;
\* after the last round the manifest is flushed and the cache cleaned up
Round(search) ==
  /\ rounds_pc = "round"
  /\ Len(manifest) <= MaxManifestLen
  /\ LET d == driver_solve(config, entries, _manifest_queue["A"], input_specs,
                           reusable_specs, search)
         res == d.outcome.result[1]
         flushed == flush_manifest(manifest, d.cache.queue)
         cleaned == cleanup(flushed, d.cache.entries, entry_limit, bytes_limit)
     IN /\ round_sizes' = Append(round_sizes, Len(input_specs))
        /\ _manifest_queue' = [_manifest_queue EXCEPT !["A"] = d.cache.queue]
        /\ stored' = IF Cardinality(DOMAIN d.cache.entries) > Cardinality(DOMAIN entries)
                     THEN Append(stored, CHOOSE k \in DOMAIN d.cache.entries : k \notin DOMAIN entries)
                     ELSE stored
        /\ IF d.outcome.kind = "raised"
           THEN /\ rounds_pc' = "raised"
                /\ round_error' = d.outcome.error
                /\ entries' = d.cache.entries
                /\ UNCHANGED <<yielded, input_specs, reusable_specs, manifest, recorded, lastOp>>
           ELSE /\ yielded' = Append(yielded, d.outcome)
                /\ IF res.unsolved_specs = << >>
                   THEN /\ rounds_pc' = "done"
                        /\ manifest' = cleaned.manifest
                        /\ entries' = cleaned.entries
                        /\ recorded' = recorded \o new_records(d.cache.queue, recorded)
                        /\ lastOp' = [op |-> "cleanup", proc |-> "A", ret |-> cleaned.ret,
                                      before |-> Len(stored')]
                        /\ UNCHANGED <<round_error, input_specs, reusable_specs>>
                   ELSE IF res.specs = << >>
                   THEN /\ rounds_pc' = "raised"
                        /\ round_error' = "OutputDoesNotSatisfyInputError"
                        /\ entries' = d.cache.entries
                        /\ UNCHANGED <<input_specs, reusable_specs, manifest, recorded, lastOp>>
                   ELSE /\ rounds_pc' = "round"
                        /\ input_specs' = next_input_specs(res)
                        /\ reusable_specs' = reusable_specs \cup items(res.specs)
                        /\ entries' = d.cache.entries
                        /\ UNCHANGED <<round_error, manifest, recorded, lastOp>>
  /\ UNCHANGED <<initial_specs, nruns>>
  /\ UNCHANGED otherThanRounds

RoundsNext ==
  \/ \E specs \in InputLists : SolveInRounds(specs)
  \/ \E search \in Runs : Round(search)


(***************************************************************************)
(* PART 13.  flush_manifest and cleanup of two processes on one cache      *)
(* root, step by step.  Each process has its own file object for the       *)
(* manifest, with its own position; what it writes is buffered and reaches *)
(* the file when the file object seeks or is closed.                       *)
(***************************************************************************)
\* what a write of text at the position pos leaves in a file
write_at(content, pos, text) ==
  SubSeq(content, 1, pos) \o text
  \o (IF pos + Len(text) < Len(content)
      THEN SubSeq(content, pos + Len(text) + 1, Len(content)) ELSE << >>)

\* flush_manifest, 791-797: the count and the bytes of the first line
read_stats(m) ==
  LET md == _extract_cache_metadata(m)
  IN IF md[1] = None \/ md[2] = None THEN [count |-> 0, cache_bytes |-> 0]
     ELSE [count |-> md[1], cache_bytes |-> md[2]]

\* flush_manifest, 799-805: the first line written after the queued updates
new_stats(stats, queue) ==
  Dec(stats.count + Len(queue) + 1) \o <<" ">>
  \o Dec(stats.cache_bytes + queue_bytes(queue)) \o <<"\n">>

FlushInit ==
  /\ flush_pc = [w \in Procs |-> "idle"]
  /\ flush_stats = [w \in Procs |-> [count |-> 0, cache_bytes |-> 0]]
  /\ flush_pos = [w \in Procs |-> 0]

\* the state of part 13 in the specifications that do not use it
FlushIdle == FlushInit

\* a process stores Results before it flushes (store, 830-851)
StoreBeforeFlush(w) ==
  /\ flush_pc[w] = "idle"
  /\ \/ \E problem \in Problems, cache_dict \in CacheDicts : StoreInit(w, problem, cache_dict)
     \/ StoreTransaction(w)

\* flush_manifest, 788-797: the manifest is opened without a lock and its
\* first line is read
FlushOpen(w) ==
  /\ flush_pc[w] = "idle"
  /\ store_pc[w] = << >>
  /\ Len(manifest) <= MaxManifestLen
  /\ flush_pc' = [flush_pc EXCEPT ![w] = "opened"]
  /\ flush_stats' = [flush_stats EXCEPT ![w] = read_stats(manifest)]
  /\ UNCHANGED flush_pos
  /\ UNCHANGED cacheVars
  /\ UNCHANGED otherThanFlush

\* flush_manifest, 798: f.seek(0, io.SEEK_END)
FlushSeekEnd(w) ==
  /\ flush_pc[w] = "opened"
  /\ flush_pc' = [flush_pc EXCEPT ![w] = "at-end"]
  /\ flush_pos' = [flush_pos EXCEPT ![w] = Len(manifest)]
  /\ UNCHANGED flush_stats
  /\ UNCHANGED cacheVars
  /\ UNCHANGED otherThanFlush

\* flush_manifest, 799-804: the queued updates are written at the position
\* of the file object; they reach the file at f.seek(0, io.SEEK_SET)
FlushEntries(w) ==
  /\ flush_pc[w] = "at-end"
  /\ flush_pc' = [flush_pc EXCEPT ![w] = "at-start"]
  /\ manifest' = write_at(manifest, flush_pos[w], queue_text(_manifest_queue[w]))
  /\ flush_pos' = [flush_pos EXCEPT ![w] = 0]
  /\ UNCHANGED flush_stats
  /\ UNCHANGED <<entries, _manifest_queue, store_pc, recorded, stored, lastOp, entry_limit>>
  /\ UNCHANGED otherThanFlush

\* flush_manifest, 805-806: the first line is written at the start; it
\* reaches the file when the with block closes the file object
FlushStats(w) ==
  /\ flush_pc[w] = "at-start"
  /\ flush_pc' = [flush_pc EXCEPT ![w] = "flushed"]
  /\ manifest' = write_at(manifest, 0, new_stats(flush_stats[w], _manifest_queue[w]))
  /\ UNCHANGED <<flush_stats, flush_pos>>
  /\ UNCHANGED <<entries, _manifest_queue, store_pc, recorded, stored, lastOp, entry_limit>>
  /\ UNCHANGED otherThanFlush

\* cleanup (617-677) after the flush, as a whole: it runs inside a read
\* transaction of the FileCache on the manifest
CleanupAfterFlush(w) ==
  /\ flush_pc[w] = "flushed"
  /\ flush_pc' = [flush_pc EXCEPT ![w] = "done"]
  /\ LET r == cleanup(manifest, entries, entry_limit, bytes_limit)
     IN /\ manifest' = r.manifest
        /\ entries' = r.entries
  /\ UNCHANGED <<flush_stats, flush_pos>>
  /\ UNCHANGED <<_manifest_queue, store_pc, recorded, stored, lastOp, entry_limit>>
  /\ UNCHANGED otherThanFlush

FlushNext ==
  \/ \E w \in Procs : StoreBeforeFlush(w)
  \/ \E w \in Procs : FlushOpen(w)
  \/ \E w \in Procs : FlushSeekEnd(w)
  \/ \E w \in Procs : FlushEntries(w)
  \/ \E w \in Procs : FlushStats(w)
  \/ \E w \in Procs : CleanupAfterFlush(w)


UnifyNext ==
  \/ \E spec \in InputSpecs : Add(spec)
  \/ \E pre \in PreSpecs : BuildSpecs(pre)

\* the state after construction, for each of the three specifications
\* the state of the parts checked by themselves where they are not used
AnalysisIdle == CoreIdle /\ FlagsIdle /\ BuildIdle /\ VersionsIdle /\ TreeIdle /\ CondIdle /\ KeyIdle /\ RoundsIdle /\ FlushIdle

UnifySpecInit ==
  /\ UnifyInit /\ CacheInit /\ entry_limit = 0 /\ DriverInit /\ config = DefaultConfig
  /\ AnalysisIdle

CacheSpecInit ==
  CacheInit /\ UnifyInit /\ DriverInit /\ config = DefaultConfig /\ AnalysisIdle

DriverSpecInit == DriverInit /\ CacheInit /\ entry_limit = 0 /\ UnifyInit /\ AnalysisIdle

\* the state of parts 1, 2 and 4 where they are not used
ProgramIdle ==
  UnifyInit /\ CacheInit /\ entry_limit = 0 /\ DriverInit /\ config = DefaultConfig

CoreSpecInit == CoreInit /\ ProgramIdle /\ FlagsIdle /\ BuildIdle /\ VersionsIdle /\ TreeIdle /\ CondIdle /\ KeyIdle /\ RoundsIdle /\ FlushIdle

FlagsSpecInit == FlagsInit /\ ProgramIdle /\ CoreIdle /\ BuildIdle /\ VersionsIdle /\ TreeIdle /\ CondIdle /\ KeyIdle /\ RoundsIdle /\ FlushIdle

BuildSpecInit == BuildInit /\ ProgramIdle /\ CoreIdle /\ FlagsIdle /\ VersionsIdle /\ TreeIdle /\ CondIdle /\ KeyIdle /\ RoundsIdle /\ FlushIdle

VersionsSpecInit == VersionsInit /\ ProgramIdle /\ CoreIdle /\ FlagsIdle /\ BuildIdle /\ TreeIdle /\ CondIdle /\ KeyIdle /\ RoundsIdle /\ FlushIdle

TreeSpecInit == TreeInit /\ ProgramIdle /\ CoreIdle /\ FlagsIdle /\ BuildIdle /\ VersionsIdle /\ CondIdle /\ KeyIdle /\ RoundsIdle /\ FlushIdle

CondSpecInit == CondInit /\ ProgramIdle /\ CoreIdle /\ FlagsIdle /\ BuildIdle /\ VersionsIdle /\ TreeIdle /\ KeyIdle /\ RoundsIdle /\ FlushIdle

KeySpecInit == KeyInit /\ ProgramIdle /\ CoreIdle /\ FlagsIdle /\ BuildIdle /\ VersionsIdle /\ TreeIdle /\ CondIdle /\ RoundsIdle /\ FlushIdle

FlushSpecInit == FlushInit /\ UnifyInit /\ CacheInit /\ entry_limit = 0 /\ DriverInit /\ config = DefaultConfig /\ CoreIdle /\ FlagsIdle /\ BuildIdle /\ VersionsIdle /\ TreeIdle /\ CondIdle /\ KeyIdle /\ RoundsIdle

RoundsSpecInit == RoundsInit /\ UnifyInit /\ CacheInit /\ entry_limit = 0 /\ DriverInit /\ CoreIdle /\ FlagsIdle /\ BuildIdle /\ VersionsIdle /\ TreeIdle /\ CondIdle /\ KeyIdle /\ FlushIdle

\* the container and the hash unification alone
SpecUnify == UnifySpecInit /\ [][UnifyNext]_vars

\* the cache under two processes
SpecCache == CacheSpecInit /\ [][CacheNext]_vars

\* the solve driver and its cache, one process
SpecDriver == DriverSpecInit /\ [][DriverNext]_vars

\* minimize_core on every core and every solver
SpecCore == CoreSpecInit /\ [][CoreNext]_vars

\* reorder_flags on every list of flags of the groups
SpecFlags == FlagsSpecInit /\ [][FlagsNext]_vars

\* build_specs on every list of attribute tuples
SpecBuild == BuildSpecInit /\ [][BuildNext]_vars

\* the version declarations of setup on every input
SpecVersions == VersionsSpecInit /\ [][VersionsNext]_vars

\* get_cause_tree on every relation of at most MaxPairs pairs
SpecTree == TreeSpecInit /\ [][TreeNext]_vars

\* the same, when the program keeps running
SpecTreeLive == SpecTree /\ WF_vars(TreeNext)

\* calls of condition and flushes of the caches, in every order
SpecCond == CondSpecInit /\ [][CondNext]_vars

\* the splice rules of two programs and their cache keys
SpecKey == KeySpecInit /\ [][KeyNext]_vars

\* calls of solve_in_rounds, one after the other, on one cache
SpecRounds == RoundsSpecInit /\ [][RoundsNext]_vars

\* two processes that store, flush the manifest and clean up
SpecFlush == FlushSpecInit /\ [][FlushNext]_vars

(***************************************************************************)
(* Claims on the container and the hash unification, under SpecUnify, and  *)
(* on the cache, under SpecCache.                                          *)
(***************************************************************************)
\* the objects reachable from o along dependency edges
RECURSIVE Reach(_, _)
Reach(h, o) ==
  {o} \cup UNION { Reach(h, h[o].edges[i].spec) : i \in 1..Len(h[o].edges) }

\* C1: every dependency edge of a spec stored in the container points to the
\* object the container stores under the hash of the edge's target.
C1_EdgesStayInContainer ==
  \A hh \in Hashes : data[hh] # 0 =>
    \A i \in 1..Len(heap[data[hh]].edges) :
      LET target == heap[data[hh]].edges[i].spec
          th == dag_hash(heap, target)
      IN th \in Hashes /\ data[th] = target

\* C1 witness: w, whose subgraph holds two copies of y and of r, was added
C1_Witness ==
  /\ lastAdd.spec = 5 /\ lastAdd.ret = "True"
  /\ \A o \in {1, 2, 3, 4} : data[dag_hash(heap, o)] > Len(InputHeap)

\* C2 as stated: an add of a concrete spec that was added before returns
\* False and changes nothing, and the first add of a spec returns True.
C2_Original ==
  [][lastAdd' # lastAdd /\ heap[lastAdd'.spec].concrete =>
       /\ lastAdd'.spec \in added =>
             lastAdd'.ret = "False" /\ UNCHANGED <<data, heap, explicit>>
       /\ lastAdd'.spec \notin added => lastAdd'.ret = "True"]_vars

\* C2 amended: a repeated add returns False and changes nothing; a first add
\* returns True exactly when the container does not hold the spec's hash
\* yet, and otherwise returns False and only marks the hash explicit.
C2_Amended ==
  [][lastAdd' # lastAdd /\ heap[lastAdd'.spec].concrete =>
       LET hs == dag_hash(heap, lastAdd'.spec) IN
       /\ lastAdd'.spec \in added =>
             lastAdd'.ret = "False" /\ UNCHANGED <<data, heap, explicit>>
       /\ lastAdd'.spec \notin added =>
             /\ lastAdd'.ret = (IF data[hs] = 0 THEN "True" ELSE "False")
             /\ data[hs] # 0 =>
                   UNCHANGED <<data, heap>> /\ explicit' = explicit \cup {hs}]_vars

\* C2 witness: a spec is added for the second time, after other adds
C2_Witness ==
  lastAdd.again /\ lastAdd.ret = "False" /\ Cardinality(added) >= 2

\* C3: after the hash unification of build_specs, two specs with the same
\* dag hash that are in a slot or reachable from a slot are one object.
C3_OneObjectPerHash ==
  \A k1, k2 \in Slots : _specs[k1] # 0 /\ _specs[k2] # 0 =>
    \A o1 \in Reach(heap, _specs[k1]), o2 \in Reach(heap, _specs[k2]) :
      dag_hash(heap, o1) = dag_hash(heap, o2) => o1 = o2

\* C3 witness: the slots of x and z held specs that reach separate copies of
\* y, and the slot of y a third one; they were unified
C3_Witness ==
  /\ pre_specs[NodeArgument("0", "x")] = 1
  /\ pre_specs[NodeArgument("0", "z")] = 3
  /\ pre_specs[NodeArgument("0", "y")] = 2
  /\ _specs[NodeArgument("0", "y")] > Len(InputHeap)
  /\ _specs[NodeArgument("0", "y")] \in Reach(heap, _specs[NodeArgument("0", "z")])

\* C5: an entry of the cache, once written, keeps its content whatever
\* store calls follow, and a new entry holds what the writer that completed
\* the write transaction wrote.
C5_FirstWriterWins ==
  [][/\ \A k \in DOMAIN entries : k \in DOMAIN entries' /\ entries'[k] = entries[k]
     /\ \A k \in (DOMAIN entries') \ (DOMAIN entries) :
          /\ lastOp'.op = "store" /\ lastOp'.ret = "written"
          /\ lastOp'.path = k /\ entries'[k] = lastOp'.dict]_vars

\* C5 witness: a writer that passed init_entry found, inside its write
\* transaction, the entry another writer had completed with another result
C5_Witness ==
  /\ lastOp.op = "store" /\ lastOp.ret = "exists"
  /\ entries[lastOp.path] # lastOp.dict

\* the manifest text the format describes for the records rec
RECURSIVE entry_lines(_)
entry_lines(rec) ==
  IF rec = << >> THEN << >>
  ELSE Head(rec)[1] \o <<" ">> \o Dec(Head(rec)[2]) \o <<"\n">> \o entry_lines(Tail(rec))

RECURSIVE record_bytes(_)
record_bytes(rec) == IF rec = << >> THEN 0 ELSE Head(rec)[2] + record_bytes(Tail(rec))

manifest_text(rec) ==
  Dec(Len(rec)) \o <<" ">> \o Dec(record_bytes(rec)) \o <<"\n">> \o entry_lines(rec)

\* C6 as stated: cleanup on a cache of N recorded entries with an entry limit
\* of N/2 leaves at most N/2 entries, the most recently added ones.
C6_Original ==
  ( /\ lastOp.op = "cleanup"
    /\ entry_limit > 0
    /\ lastOp.before = 2 * entry_limit
    /\ Len(recorded) = lastOp.before )
  => /\ Cardinality(DOMAIN entries) <= entry_limit
     /\ DOMAIN entries =
          { stored[i] : i \in (Len(stored) - entry_limit + 1)..Len(stored) }

\* C7 as stated: after a flush_manifest or cleanup call the manifest is the
\* header "<count> <bytes>" of the recorded entries followed by one
\* "<hash> <size>" line per recorded entry, in insertion order.
C7_Original ==
  lastOp.op \in {"flush_manifest", "cleanup"} => manifest = manifest_text(recorded)

(***************************************************************************)
(* Claims on the solve driver, under SpecDriver.                           *)
(***************************************************************************)
\* C4: with the cache enabled, a solve of the lines and rule files of a
\* solve that has completed and stored its result performs no load, ground
\* or solve step, and returns the Result and the statistics of the cache
\* entry.  (A call with output.setup_only returns before the lookup.)
C4_SecondCallHitsCache ==
  (config.conc_cache_enabled /\ call.expect_hit /\ ~call.setup_only) =>
    /\ pc \in {"cache-check", "idle"}
    /\ pc = "idle" =>
         /\ outcome.kind = "returned"
         /\ outcome.from_cache
         /\ \E name \in DOMAIN entries :
              /\ name = stored[CHOOSE i \in 1..Len(stored) :
                                 stored[i] = _cache_path_from_problem(call.problem_repr).name]
              /\ outcome.result = from_dict(entries[name].results).result
              /\ outcome.statistics = <<entries[name].statistics>>

C4_Witness ==
  /\ pc = "idle"
  /\ config.conc_cache_enabled
  /\ call.expect_hit
  /\ ~call.setup_only
  /\ outcome.from_cache
  /\ Len(outcome.result[1].abstract_specs) = 2

\* C8: the cache entry of a solve is that of every program made of the same
\* lines in another order under the same rule files, and so that of the
\* earlier solve of these lines that stored its result
C8_KeyIgnoresLineOrder ==
  (pc # "idle") =>
    /\ \A q \in gen_value(call.asp_problem, TRUE) :
         _cache_path_from_problem(problem_repr(q, call.control_files))
           = _cache_path_from_problem(call.problem_repr)
    /\ \A c \in completed :
         (c[1] = line_bag(call.asp_problem) /\ c[2] = call.control_files) =>
           /\ _cache_path_from_problem(problem_repr(c[3], c[2]))
                = _cache_path_from_problem(call.problem_repr)
           /\ _cache_path_from_problem(call.problem_repr).name \in DOMAIN entries

C8_Witness ==
  /\ pc = "cache-check"
  /\ \E c \in completed :
       /\ c[1] = line_bag(call.asp_problem)
       /\ c[2] = call.control_files
       /\ c[3] # call.asp_problem

\* the dag hash of the concrete spec of each input
hashes_by_input(res) == [x \in DOMAIN res.specs_by_input |-> res.specs_by_input[x].hash]

\* C9 as stated: for every Result the driver stores, from_dict applied to
\* the value of to_dict yields a Result with the same satisfiable flag, the
\* same dag hash for each input spec and the same criteria list
C9_Original ==
  (pc = "store" /\ config.conc_cache_enabled) =>
    LET loaded == from_dict(to_dict(result[1]))
    IN /\ loaded.raised = None
       /\ loaded.result[1].satisfiable = result[1].satisfiable
       /\ hashes_by_input(loaded.result[1]) = hashes_by_input(result[1])
       /\ loaded.result[1].criteria = result[1].criteria

\* C9 amended: for every Result the driver stores, from_dict applied to the
\* JSON text of to_dict, as the cache reads it back, yields a Result with
\* the same satisfiable flag, the same dag hash for each input spec, and
\* criteria with the same (priority, value, name, kind) in the same order,
\* each a plain list
C9_Amended ==
  (pc = "store" /\ config.conc_cache_enabled) =>
    LET loaded == from_dict(json_round_trip(to_dict(result[1])))
    IN /\ loaded.raised = None
       /\ loaded.result[1].satisfiable = result[1].satisfiable
       /\ hashes_by_input(loaded.result[1]) = hashes_by_input(result[1])
       /\ Len(loaded.result[1].criteria) = Len(result[1].criteria)
       /\ \A i \in 1..Len(result[1].criteria) :
            /\ loaded.result[1].criteria[i].v = result[1].criteria[i].v
            /\ loaded.result[1].criteria[i].t = "list"

C9_Witness ==
  /\ pc = "store"
  /\ config.conc_cache_enabled
  /\ Len(result[1].abstract_specs) = 2
  /\ result[1].unsolved_specs # << >>
  /\ DOMAIN result[1].specs_by_input # {}
  /\ result[1].criteria # << >>

\* a <= b in the lexicographic order of cost vectors
lex_leq(a, b) ==
  \/ a = b
  \/ \E k \in 1..Len(a) :
       /\ k <= Len(b)
       /\ a[k] < b[k]
       /\ \A j \in 1..(k - 1) : a[j] = b[j]
  \/ (Len(a) < Len(b) /\ \A j \in 1..Len(a) : a[j] = b[j])

\* the least of the costs of the models
least_cost(ms) ==
  CHOOSE c \in { ms[i][1] : i \in 1..Len(ms) } :
    \A i \in 1..Len(ms) : lex_leq(c, ms[i][1])

\* C10: when the search is not over within a positive time limit, solve
\* raises and returns nothing if error_on_timeout is set, and otherwise
\* cancels and goes on to construct the Result from the cheapest of the
\* models reported within the limit; under a limit of 0 the wait always
\* lasts until the search is over
C10_TimeLimit ==
  [][ /\ (pc = "solve" /\ pc' # "solve") =>
           LET timed_out == config.time_limit > 0 /\ run'.finish > config.time_limit
           IN /\ (config.time_limit = 0 =>
                    /\ wait'.finished /\ ~wait'.raised /\ ~wait'.cancelled
                    /\ pc' = "construct"
                    /\ Len(models') = run'.n)
              /\ (timed_out /\ config.error_on_timeout =>
                    /\ pc' = "idle"
                    /\ outcome'.kind = "raised"
                    /\ outcome'.result = << >>)
              /\ (timed_out /\ ~config.error_on_timeout =>
                    /\ wait'.cancelled
                    /\ pc' = "construct"
                    /\ Len(models') = IF run'.n <= config.time_limit
                                      THEN run'.n ELSE config.time_limit)
              /\ (config.time_limit > 0 /\ ~timed_out => wait'.finished)
      /\ (pc = "construct" /\ wait.cancelled /\ pc' = "store") =>
           result'[1].answers[1].v[1] = least_cost(models)
    ]_vars

C10_Witness ==
  /\ pc = "store"
  /\ wait.cancelled
  /\ run.n = 2
  /\ Len(models) = 1
  /\ result[1].satisfiable

\* the model that min picks among ms: of least cost and, among those of
\* least cost, of least symbols
best_model(ms) ==
  CHOOSE m \in { ms[i] : i \in 1..Len(ms) } :
    /\ m[1] = least_cost(ms)
    /\ \A i \in 1..Len(ms) : ms[i][1] = m[1] => m[2] <= ms[i][2]

\* C11: when the search gave at least one model and the best model holds an
\* error fact, solve raises, returns no Result and does not call build_specs;
\* every model build_specs is called with holds no error fact
C11_NoBuildOnErrorFacts ==
  [][ /\ (pc = "construct" /\ pc' # "construct" /\ Len(models) >= 1
          /\ best_model(models)[2] \in run.errors) =>
            /\ pc' = "idle"
            /\ outcome'.kind = "raised"
            /\ outcome'.result = << >>
            /\ built' = built
            /\ result' = << >>
      /\ \A i \in 1..Len(built') : built'[i][2] \notin run'.errors
    ]_vars

C11_Witness ==
  /\ pc = "idle"
  /\ outcome.kind = "raised"
  /\ wait.finished
  /\ Len(models) = 2
  /\ best_model(models)[2] \in run.errors
  /\ built = << >>

\* C12: the cost vector of the model build_specs is called with, which is
\* the cost of the answer of the Result, is lexicographically less than or
\* equal to the cost vector of every model reported in the solve
C12_ChosenModelIsCheapest ==
  /\ \A i \in 1..Len(built) : \A j \in 1..Len(models) :
       lex_leq(built[i][1], models[j][1])
  /\ pc = "store" =>
       /\ Len(built) = 1
       /\ result[1].answers[1].v[1] = built[1][1]

C12_Witness ==
  /\ pc = "store"
  /\ Len(models) = 2
  /\ built[1] = models[1]
  /\ models[1][1] # models[2][1]

\* C13 as stated: under concretize_everything, when the specs were built
\* and the concrete spec of some input does not satisfy it, solve raises
\* OutputDoesNotSatisfyInputError and returns no Result
C13_Original ==
  [][ (/\ pc = "construct"
       /\ built' # built
       /\ call.concretize_everything
       /\ \E i \in 1..Len(call.specs) :
            \/ call.specs[i].name \notin run.nodes
            \/ call.specs[i] \notin run.satisfied) =>
         /\ pc' = "idle"
         /\ outcome'.kind = "raised"
         /\ outcome'.error = "OutputDoesNotSatisfyInputError"
         /\ outcome'.result = << >>
    ]_vars

\* C13 amended: under concretize_everything, when the specs were built,
\* solve raises OutputDoesNotSatisfyInputError and returns no Result if some
\* input has no concrete spec or one such that neither it nor its build
\* spec satisfies the input; otherwise it goes on to return the Result
C13_Amended ==
  [][ (/\ pc = "construct"
       /\ built' # built
       /\ call.concretize_everything) =>
         IF \E i \in 1..Len(call.specs) :
              \/ call.specs[i].name \notin run.nodes
              \/ /\ call.specs[i] \notin run.satisfied
                 /\ call.specs[i] \notin run.build_satisfied
         THEN /\ pc' = "idle"
              /\ outcome'.kind = "raised"
              /\ outcome'.error = "OutputDoesNotSatisfyInputError"
              /\ outcome'.result = << >>
              /\ result' = << >>
         ELSE /\ pc' = "store"
              /\ outcome'.kind = "none"
    ]_vars

C13_Witness ==
  /\ pc = "idle"
  /\ call.concretize_everything
  /\ outcome.error = "OutputDoesNotSatisfyInputError"
  /\ built # << >>
  /\ \E i \in 1..Len(call.specs) :
       /\ call.specs[i].name \in run.nodes
       /\ call.specs[i] \notin run.build_satisfied

\* every input of the Result is once in specs_by_input or in unsolved_specs
appears_once(res) ==
  \A i \in 1..Len(res.abstract_specs) :
    LET x == res.abstract_specs[i]
    IN Cardinality({ k \in 1..Len(res.unsolved_specs) : res.unsolved_specs[k][1] = x })
         + (IF x \in DOMAIN res.specs_by_input THEN 1 ELSE 0) = 1

\* the Result of the solve under way matches each input with the concrete
\* spec of its package if that or its build spec satisfies the input, and
\* otherwise pairs it with its candidate
matched_by_the_run(res) ==
  /\ \A x \in DOMAIN res.specs_by_input :
       /\ res.specs_by_input[x].name = x.name
       /\ x.name \in run.nodes
       /\ x \in run.satisfied \/ x \in run.build_satisfied
  /\ \A k \in 1..Len(res.unsolved_specs) :
       LET x == res.unsolved_specs[k][1]
       IN /\ x \notin run.satisfied \cap run.build_satisfied \/ x.name \notin run.nodes
          /\ res.unsolved_specs[k][2] =
               IF x.name \in run.nodes
               THEN <<res.answers[1].v[3][NodeArgument("0", x.name)]>>
               ELSE << >>

\* an unsatisfiable Result has no specs and every input unsolved, without
\* a candidate
unsolved_without_candidates(res) ==
  /\ res.specs = << >>
  /\ DOMAIN res.specs_by_input = {}
  /\ res.unsolved_specs =
       [i \in 1..Len(res.abstract_specs) |-> <<res.abstract_specs[i], << >> >>]

C14_MinimalCore ==
  core_pc = "returned" =>
    /\ items(min_core) \subseteq items(core)
    /\ \E m \in unsat_sets : m \subseteq items(min_core)
    /\ \A f \in items(min_core) :
         ~ \E m \in unsat_sets : m \subseteq items(min_core) \ {f}
    /\ solves = Len(core)

C14_Witness ==
  /\ core_pc = "returned"
  /\ Len(core) = 3
  /\ Cardinality(items(core)) = 3
  /\ Cardinality(items(min_core)) = 2
  /\ Cardinality(unsat_sets) = 2
  /\ min_core[1] = core[2]

(***************************************************************************)
(* Claims about reorder_flags                                              *)
(***************************************************************************)
\* the number of times a flag text stands in a list of flags
flag_count(flag_list, text) ==
  Cardinality({ i \in 1..Len(flag_list) : flag_list[i].flag = text })

FlagTexts == UNION { items(tokenize_flags(g.flag_group)) : g \in FlagGroups }

same_flag_set(before, after) == items(flag_texts(before)) = items(flag_texts(after))

same_origin(f, g) == f.flag_group = g.flag_group /\ f.source = g.source

RECURSIVE without_unknown(_)
without_unknown(seq) ==
  IF seq = << >> THEN << >>
  ELSE (IF Head(seq)[1] \in Actions \/ ignored_attributes(Head(seq)[1])
        THEN <<Head(seq)>> ELSE << >>) \o without_unknown(Tail(seq))

build_over == build_pc \notin {"idle", "loop"}

\* C19: an attribute tuple whose name names no action and is not on the
\* ignore list does not abort build_specs: the tuple is skipped, and the
\* loop ends as it does, with the specs it gives, when the tuple is absent.
C19_UnknownTupleSkipped ==
  /\ build_pc # "AttributeError"
  /\ build_over =>
       LET absent == apply_tuples(BuildState(<< >>, << >>, None),
                                  sort_tuples(without_unknown(arrived)))
       IN /\ specs_by_node = absent.specs
          /\ applied = absent.applied
          /\ build_pc = (IF absent.raised # None THEN absent.raised ELSE "done")

\* the unknown tuple arrived before the tuples of its node, and the node
\* was built with its version
C19_Witness ==
  /\ build_pc = "done"
  /\ Len(arrived) >= 3
  /\ arrived[1][1] = "frobnicate"
  /\ NodeA \in DOMAIN specs_by_node
  /\ specs_by_node[NodeA].versions = "1.0"

\* C20: whatever the order of arrival, build_specs calls the hash actions
\* before the node actions, the node actions before all others, and
\* external_spec_selected and then virtual_on_edge last.
C20_ActionOrder ==
  \A i \in 1..Len(applied) : \A j \in (i + 1)..Len(applied) :
    /\ applied[j][1] = "hash" => applied[i][1] = "hash"
    /\ applied[j][1] = "node" => applied[i][1] \in {"hash", "node"}
    /\ applied[i][1] = "virtual_on_edge" => applied[j][1] = "virtual_on_edge"
    /\ applied[i][1] = "external_spec_selected"
         => applied[j][1] \in {"external_spec_selected", "virtual_on_edge"}

\* the tuples arrived in the opposite order and all five actions were called
C20_Witness ==
  /\ build_pc = "done"
  /\ Len(arrived) = 5
  /\ arrived[1][1] = "virtual_on_edge"
  /\ arrived[2][1] = "external_spec_selected"
  /\ arrived[3][1] = "depends_on"
  /\ arrived[4][1] = "node"
  /\ arrived[5][1] = "hash"
  /\ Len(applied) = 5


(***************************************************************************)
(* Claims about the versions declared by setup                             *)
(***************************************************************************)
\* the versions package.py marks as deprecated
marked_deprecated == { x.version : x \in { y \in packages.package_py : y.deprecated } }

declared(origin) ==
  { declared_versions[i].version :
      i \in { j \in 1..Len(declared_versions) : declared_versions[j].origin = origin } }

Origins == {"PACKAGE_PY", "EXTERNAL", "PACKAGES_YAML", "SPEC", "DEV_SPEC",
            "PACKAGE_REQUIREMENT", "INSTALLED"}

\* C18, as stated: when allow_deprecated is false, after setup no version
\* that the package marks as deprecated is among the versions declared for
\* the package, whatever the provenance of the declaration.
C18_Original ==
  (setup_pc = "done" /\ ~packages.allow_deprecated) =>
    \A origin \in Origins : declared(origin) \cap marked_deprecated = {}

\* C18, amended: when allow_deprecated is false, after setup no version
\* that the package marks as deprecated is declared with the provenance of
\* package.py, of the command line, of a develop spec or of a requirement.
\* A deprecated version is declared only if it is the version of an
\* external or of a reusable installed spec: with that provenance, and with
\* the provenance of a preference of packages.yaml that it satisfies.
C18_Amended ==
  (setup_pc = "done" /\ ~packages.allow_deprecated) =>
    /\ \A origin \in {"PACKAGE_PY", "SPEC", "DEV_SPEC", "PACKAGE_REQUIREMENT"} :
         declared(origin) \cap marked_deprecated = {}
    /\ \A origin \in Origins :
         declared(origin) \cap marked_deprecated
           \subseteq items(packages.externals) \cup packages.reuse
    /\ items(packages.externals) \subseteq declared("EXTERNAL")
    /\ packages.reuse \subseteq declared("INSTALLED")

\* the deprecated version is asked for on the command line and is the
\* version of an external: it is declared as external only
C18_Witness ==
  /\ setup_pc = "done"
  /\ ~packages.allow_deprecated
  /\ packages.specs = <<3>>
  /\ 3 \in marked_deprecated
  /\ 3 \in declared("EXTERNAL")
  /\ 2 \in declared("PACKAGE_PY")
  /\ 3 \notin declared("PACKAGE_PY") \cup declared("SPEC")


(***************************************************************************)
(* Claims about the reused specs in the loop of build_specs                *)
(***************************************************************************)
\* the actions called on a node: those whose first argument it is
called_on(calls, node) ==
  { i \in 1..Len(calls) : calls[i][2][1] = node }

\* C21: during the loop of build_specs, once the slot of a node holds a
\* concrete spec, no action other than node_flag_source and splice_at_hash
\* is called on the node, and the spec of the slot stays as it is.
C21_ConcreteSlotUntouched ==
  [][\A node \in DOMAIN specs_by_node :
       specs_by_node[node].concrete =>
         /\ node \in DOMAIN specs_by_node'
         /\ specs_by_node'[node] = specs_by_node[node]
         /\ \A i \in called_on(applied', node) \ called_on(applied, node) :
              applied'[i][1] \in {"node_flag_source", "splice_at_hash"}]_vars

\* a version of the reused node arrived before its hash, and the loop ended
\* with the reused spec as the hash gave it
C21_Witness ==
  /\ build_pc = "done"
  /\ Len(arrived) >= 3
  /\ arrived[1] = <<"version", <<NodeB, "2.0">>>>
  /\ \E i \in 2..Len(arrived) : arrived[i][1] = "hash"
  /\ \E i \in 2..Len(arrived) : arrived[i][1] = "depends_on"
  /\ specs_by_node[NodeB] = hash_lookup("b", "hash-b")
  /\ called_on(applied, NodeB) = {1}


(***************************************************************************)
(* Claims about get_cause_tree                                             *)
(***************************************************************************)
\* C24: get_cause_tree terminates for every condition_cause relation, with
\* cycles and with pairs that are their own cause too, and returns a list
\* of lines.
C24_CauseTreeTerminates == <>(tree_pc = "done")

\* the tree of a relation with a cycle and a pair that is its own cause
\* was returned
C24_Witness ==
  /\ tree_pc = "done"
  /\ \E i \in 1..Len(condition_causes) : condition_causes[i][1] = condition_causes[i][2]
  /\ \E i, j \in 1..Len(condition_causes) :
       /\ condition_causes[i][1] # condition_causes[i][2]
       /\ condition_causes[i][1] = condition_causes[j][2]
       /\ condition_causes[i][2] = condition_causes[j][1]
       /\ condition_causes[i][1] = root_cause
  /\ Len(tree_lines) >= 3


(***************************************************************************)
(* Claims about the order of the sources after reorder_flags               *)
(***************************************************************************)
\* the place of the kind of a source in the order of the claim
source_rank(source) ==
  CASE source = Compiler -> 0
    [] source.suffix = "_dep" -> 1
    [] source.suffix = "_req" -> 2
    [] source = Literal -> 3

before_call == last_call.before[1]

\* C30: after a call of condition, returned or raised, every spec object of
\* the caller has the name it had before the call, also when the required
\* and the imposed spec are the same object.
C30_NamesRestored ==
  last_call.op = "condition" => spec_names = before_call.names

\* a call with one anonymous object as required and imposed spec returned,
\* and named the object on the way
C30_Witness ==
  /\ last_call.op = "condition"
  /\ last_call.raised = None
  /\ last_call.call[1].required_spec = "o2"
  /\ last_call.call[1].imposed_spec = <<"o2">>
  /\ \E i \in 1..Len(emitted) : emitted[i][1] = "condition" /\ emitted[i][2] = "c"
  /\ spec_names["o2"] = None

\* the ids the registrations of one half, name and key got
ids_of(r) ==
  { q.id : q \in { q \in registered : q.half = r.half /\ q.name = r.name /\ q.key = r.key } }

\* the trigger_id or effect_id facts emitted for the ids a set holds
id_facts(half, name, ids) ==
  { i \in 1..Len(emitted) :
      emitted[i][1] = half \o "_id" /\ emitted[i][2] = name /\ emitted[i][3] \in ids }

\* C23 as stated: two registrations of the same package, text and
\* transform get the same id whatever happens between them, and the facts
\* of that trigger or effect are emitted once.
C23_Original ==
  \A r \in registered :
    /\ Cardinality(ids_of(r)) = 1
    /\ Cardinality(id_facts(r.half, r.name, ids_of(r))) <= 1

\* C23 as the code has it: two registrations of the same package, text and
\* transform with no flush of the caches between them get the same id, and
\* the facts of one id are emitted at most once.
C23_Amended ==
  /\ \A r1, r2 \in registered :
       (r1.half = r2.half /\ r1.name = r2.name /\ r1.key = r2.key /\ r1.epoch = r2.epoch)
         => r1.id = r2.id
  /\ \A r \in registered : Cardinality(id_facts(r.half, r.name, {r.id})) <= 1

\* the second of two calls found its trigger in the cache, and a flush
\* emitted the facts of it
C23_Witness ==
  /\ last_call.op = "flush"
  /\ nconds = 2
  /\ Cardinality({ i \in 1..Len(emitted) : emitted[i][1] = "condition" }) = 2
  /\ Cardinality({ r \in registered : r.half = "trigger" }) = 1
  /\ \E r \in registered : id_facts(r.half, r.name, {r.id}) # {}

\* every trigger_id and effect_id fact emitted is the id of a condition
\* whose facts were emitted
no_fact_of_a_raised_condition ==
  \A i \in 1..Len(emitted) :
    /\ emitted[i][1] = "trigger_id" =>
         \E j \in 1..Len(emitted) :
           emitted[j][1] = "condition_trigger" /\ emitted[j][4] = emitted[i][3]
    /\ emitted[i][1] = "effect_id" =>
         \E j \in 1..Len(emitted) :
           emitted[j][1] = "condition_effect" /\ emitted[j][4] = emitted[i][3]

C29_Original ==
  (cache_keys["P"] # << >> /\ cache_keys["Q"] # << >> /\ cache_keys["P"] = cache_keys["Q"])
    => rules_of(splice_specs["P"]) = rules_of(splice_specs["Q"])

(***************************************************************************)
(* Claims about the time limit and the cache (SpecDriver)                  *)
(***************************************************************************)
\* solve has returned the Result of a search that the time limit cut short
returned_after_timeout ==
  pc = "idle" /\ outcome.kind = "returned" /\ ~outcome.from_cache /\ wait.cancelled

\* C28 as stated: the Result of a search that the time limit cut short is
\* never written to the cache.
C28_Original ==
  returned_after_timeout =>
    _cache_path_from_problem(call.problem_repr).name \notin DOMAIN entries

\* C28 as the code has it: with the cache enabled, the Result of a search
\* that the time limit cut short is written to the cache like any other,
\* and the entry of the program holds it.
C28_Amended ==
  (returned_after_timeout /\ config.conc_cache_enabled) =>
    /\ _cache_path_from_problem(call.problem_repr).name \in DOMAIN entries
    /\ entries[_cache_path_from_problem(call.problem_repr).name].results
         = json_round_trip(to_dict(result[1]))
    /\ stored[Len(stored)] = _cache_path_from_problem(call.problem_repr).name

\* the search had reported one of its two models when the limit of one
\* second expired, and the Result built from that model is in the cache
C28_Witness ==
  /\ returned_after_timeout
  /\ config.conc_cache_enabled
  /\ config.time_limit = 1
  /\ run.n = 2
  /\ Len(models) = 1
  /\ _cache_path_from_problem(call.problem_repr).name \in DOMAIN entries

(***************************************************************************)
(* Claims about Solver.solve_in_rounds (SpecRounds)                        *)
(***************************************************************************)
\* the input has a concrete spec in one of the Results yielded
matched_in_a_round(s) ==
  \E i \in 1..Len(yielded) : s \in DOMAIN yielded[i].result[1].specs_by_input

\* every round but the first has fewer inputs than the round before it
fewer_inputs_each_round ==
  \A i \in 2..Len(round_sizes) : round_sizes[i] < round_sizes[i - 1]

C25_Original ==
  (\A w \in Procs : flush_pc[w] = "done") =>
    manifest \in
      { flush_manifest(flush_manifest(<< >>, _manifest_queue["A"]), _manifest_queue["B"]),
        flush_manifest(flush_manifest(<< >>, _manifest_queue["B"]), _manifest_queue["A"]) }

====
